---- MODULE Spec2Model ----
(***************************************************************************)
(* Model of the navigation core of the AMR sketch (AMR_Complete.ino):      *)
(* the route executor with its nested obstacle avoidance, the wall         *)
(* follower, the encoder-terminated turn controller, the operator          *)
(* commands and the open-loop motor driver.                                *)
(*                                                                         *)
(* Representation.  The sketch stores absolute encoder snapshots and       *)
(* absolute millis() timestamps and only ever reads the difference to the  *)
(* current counter / clock.  The model stores those differences:           *)
(*   turnDl   = encoders.readLeft()  - turnStartLeft0                      *)
(*   moveDl   = encoders.readLeft()  - routeExec.moveStartLeft             *)
(*   turnElapsed = millis() - turnStartTime            ... and so on.      *)
(* A snapshot in the code is a reset of the difference to 0; an encoder    *)
(* edge or the passing of time changes every difference at once.  A        *)
(* difference that the code cannot read before it snapshots it again is    *)
(* kept at 0 (see Canon).  One control step lasts TimeStep ms (half of it  *)
(* while an obstacle debounce runs, see FastControlStep), and in it the    *)
(* driven wheels yield one encoder pulse each, or none (jammed).           *)
(*                                                                         *)
(* One iteration of loop() is two steps: the control step (handleAutoTurn, *)
(* route state machine, wall follower) and the request step: the HTTP     *)
(* request served by handleWiFiServer at the end of the iteration or the  *)
(* serial command read at the start of the next one, whichever the        *)
(* operator sends (at most one request between two control steps).        *)
(* pc = "request" is the tick boundary.                                   *)
(***************************************************************************)
EXTENDS Integers, Sequences, FiniteSets, TLC

\* ------------------------------------------------------------------------
\* Bounds of the model (not program constants)
\* ------------------------------------------------------------------------
\* encoder resolution of the model, in pulses per metre of wheel travel
\* (stands for getPulsesPerRevolution() / WHEEL_CIRCUMFERENCE_CM)
PulsesPerMeter == 2
\* time that passes between two control steps when time advances (ms)
TimeStep == 2000
\* the encoder counter is kept in two halves of this radix, as a long is kept
\* in bytes
Radix == 4
\* largest magnitude the encoder counters reach in the model
MaxCount == 5
\* largest number of edges per wheel whose levels are remembered
MaxEdges == 3
\* longest time the wait of the calibration is followed (ms)
MaxWait == 60
\* largest number of encoder edges the odometry is followed over
MaxTravel == 4

\* ------------------------------------------------------------------------
\* Program constants
\* ------------------------------------------------------------------------
MAX_SPEED == 255
DEFAULT_SPEED == 102
TURN_SPEED == 51
MIN_SPEED == 80
\* float integralClamp = 500.0f, unsigned int pidIntervalMs = 50
integralClamp == 500
pidIntervalMs == 50
\* #define WHEEL_BASE_CM 63.5, in millimetres
WheelBaseMm == 635
\* PI and 2 * PI in units of 0.0001 rad
Pi == 31416
TwoPi == 62832
\* DIST_EPS_CM = 0.001f in units of 0.001 cm
DistEps == 1
ROUTE_COUNT == 4
MAX_TURN_TIME == 4000
OBSTACLE_THRESHOLD_CM == 30
AVOID_STEP_CM == 30
AVOID_CLEAR_MARGIN_CM == 8
AVOID_MAX_STEP_CM == 200
OBSTACLE_DETECTION_DELAY_MS == 2000
WALL_FOLLOW_THRESHOLD_CM == 30
ALL_WALLS_TIMEOUT_MS == 10000
WALL_FOLLOW_SPEED == 100

ROUTE_IDLE == 0
ROUTE_WAITING == 1
ROUTE_TURNING == 2
ROUTE_MOVING == 3
ROUTE_DONE == 4

\* sensor selectors (the analog pins of the sketch)
IR_LEFT_SIDE_PIN == "L"
IR_FRONT_LEFT_PIN == "FL"
IR_FRONT_RIGHT_PIN == "FR"
IR_RIGHT_SIDE_PIN == "R"
NoPin == "none"
Pins == {IR_LEFT_SIDE_PIN, IR_FRONT_LEFT_PIN, IR_FRONT_RIGHT_PIN, IR_RIGHT_SIDE_PIN}

\* route table
route0 == << <<0, 0>>, <<30, 0>>, <<30, 30>> >>
route1 == << <<-10, 5>>, <<0, 10>>, <<10, 5>>, <<0, 0>> >>
route2 == << <<-10, 5>>, <<0, 10>>, <<10, 5>>, <<0, 0>> >>
route3 == << <<0, 0>>, <<5, 0>>, <<10, 5>> >>
\* routesPoints[idx][pIndex] with the C indices 0..
routesPoints == [i \in 0..(ROUTE_COUNT - 1) |->
                   CASE i = 0 -> route0 [] i = 1 -> route1 [] i = 2 -> route2 [] OTHER -> route3]
routesCounts == [i \in 0..(ROUTE_COUNT - 1) |-> Len(routesPoints[i])]

\* ------------------------------------------------------------------------
\* Arithmetic helpers
\* ------------------------------------------------------------------------
Abs(x) == IF x < 0 THEN -x ELSE x
Sign(x) == IF x > 0 THEN 1 ELSE IF x < 0 THEN -1 ELSE 0
Max2(a, b) == IF a > b THEN a ELSE b
Min2(a, b) == IF a < b THEN a ELSE b
constrain(x, lo, hi) == IF x < lo THEN lo ELSE IF x > hi THEN hi ELSE x

\* (long)(pulsesF + 0.5f) with pulsesF = (cm / WHEEL_CIRCUMFERENCE_CM) * PPR,
\* written with the model's pulses per metre
PulsesForCm(cm) == (2 * cm * PulsesPerMeter + 100) \div 200

\* startAutoTurn: pulsesF = |angle| * PPR * WHEEL_BASE_CM / (360 * WHEEL_DIAMETER_CM),
\* i.e. the arc |angle|/360 * pi * 63.5 cm travelled by each wheel, in pulses
\* (pi * 63.5 / 360 = 0.55414 cm per degree)
TurnPulsesFor(angleDelta) ==
    (2 * Abs(angleDelta) * 55414 * PulsesPerMeter + 10000000) \div 20000000

AvoidStepPulses == PulsesForCm(AVOID_STEP_CM)
AvoidMaxPulses == PulsesForCm(AVOID_MAX_STEP_CM)

\* largest encoder difference the model tracks: a wheel whose tracked
\* difference is at the cap does not move (it is jammed)
MaxDelta == AvoidMaxPulses + 1

\* ------------------------------------------------------------------------
\* Inputs of the model
\* ------------------------------------------------------------------------
\* distances a sensor can report (cm): near, inside the wall band, clear
ClearDist == OBSTACLE_THRESHOLD_CM + AVOID_CLEAR_MARGIN_CM + 2
Dists == {10, 20, ClearDist}
\* the distances that matter to the route executor: blocked, clear
RouteDists == {20, ClearDist}
\* turn the executor computes toward the next waypoint (degrees), from the pose
Deltas == {0, 90}
\* straight-line distance to the target computed from the pose (cm)
TargetDists == {0, 30}
\* operator commands of processCommand that the model covers: forward,
\* backward, 90-degree turns, manual turns, stop, reset, motor self-test,
\* one-revolution calibration, and a stop typed in lower case
Commands == {"W", "S", "A", "D", "Q", "E", "X", "R", "T", "V", "x"}
\* route ids an operator can ask for (ROUTE_COUNT is the first invalid one)
RouteArgs == {0, 1, ROUTE_COUNT}
\* initial delays an operator can ask for (ms)
DelayArgs == {0, TimeStep}
\* the same with a delay that outlasts a control step, so that a request can
\* arrive during the wait
LongDelayArgs == {0, 2 * TimeStep}

\* ------------------------------------------------------------------------
\* State
\* ------------------------------------------------------------------------
VARIABLES
    routeExec,      \* struct RouteExecution
    wallFollow,     \* struct WallFollow
    turn,           \* turningInProgress, turnTargetPulses, turn snapshots, turn timer
    motors,         \* the four PWM channels written by MotorDriver
    pc,             \* position inside loop(): "control" or "request"
    obs,            \* observations of the last step and of the current leg
    enc,            \* class Encoder: counters, inversion flags, interrupt mask and
                    \* the position of the loop inside a read or a reset
    drv,            \* class MotorDriver: the members of the velocity loop and the
                    \* last call made to the driver
    cal,            \* case 'V' of processCommand: the locals of its wait loop
    odo             \* class Odometry: pose, last-read snapshots and the position of
                    \* the loop inside update(), init() or resetPosition()

vars == <<routeExec, wallFollow, turn, motors, pc, obs, enc, drv, cal, odo>>

\* ------------------------------------------------------------------------
\* MotorDriver (open loop).  LPWM drives a wheel forward, RPWM backward.
\* ------------------------------------------------------------------------
Channels(lr, ll, rr, rl) == [leftRPWM |-> lr, leftLPWM |-> ll, rightRPWM |-> rr, rightLPWM |-> rl]

\* round(): the nearest integer of n / d, halves away from zero
Round(n, d) == Sign(n) * ((2 * Abs(n) + d) \div (2 * d))

\* (int)round((float)speed * RIGHT_MOTOR_COMPENSATION), compensation 0.85
Compensate(speed) == Round(85 * speed, 100)

MotorsStop == Channels(0, 0, 0, 0)

MotorsMoveForward(speed) ==
    LET s == constrain(speed, MIN_SPEED, MAX_SPEED)
        rs == constrain(Compensate(s), 0, MAX_SPEED)
    IN Channels(0, s, 0, rs)

MotorsMoveBackward(speed) ==
    LET s == constrain(speed, MIN_SPEED, MAX_SPEED)
        rs == constrain(Compensate(s), 0, MAX_SPEED)
    IN Channels(s, 0, rs, 0)

MotorsTurnLeft(speed) ==
    LET s == constrain(speed, 0, MAX_SPEED)
    IN IF s = 0 THEN MotorsStop ELSE Channels(s, 0, 0, s)

MotorsTurnRight(speed) ==
    LET s == constrain(speed, 0, MAX_SPEED)
    IN IF s = 0 THEN MotorsStop ELSE Channels(0, s, s, 0)

\* setLeftMotor without the limit of the speed
SetLeftMotorNoLimit(speed) ==
    IF speed > 0 THEN <<0, Max2(speed, MIN_SPEED)>>
    ELSE IF speed < 0 THEN <<Max2(-speed, MIN_SPEED), 0>>
    ELSE <<0, 0>>

\* setLeftMotor: the pair <<RPWM, LPWM>> of the left wheel
SetLeftMotor(speed) ==
    LET s == constrain(speed, -MAX_SPEED, MAX_SPEED)
    IN IF s > 0 THEN <<0, Max2(s, MIN_SPEED)>>
       ELSE IF s < 0 THEN <<Max2(-s, MIN_SPEED), 0>>
       ELSE <<0, 0>>

\* setRightMotor: the pair <<RPWM, LPWM>> of the right wheel
SetRightMotor(speed) ==
    LET s == constrain(speed, -MAX_SPEED, MAX_SPEED)
        c == constrain(Compensate(s), -MAX_SPEED, MAX_SPEED)
    IN IF c > 0 THEN <<0, Max2(c, MIN_SPEED)>>
       ELSE IF c < 0 THEN <<Max2(-c, MIN_SPEED), 0>>
       ELSE <<0, 0>>

MotorsSetBoth(leftSpeed, rightSpeed) ==
    LET l == SetLeftMotor(leftSpeed)
        r == SetRightMotor(rightSpeed)
    IN Channels(l[1], l[2], r[1], r[2])

\* ------------------------------------------------------------------------
\* MotorDriver (velocity loop).  Speeds are in pulses per second, gains in
\* thousandths and the integrals in thousandths of a pulse (error times
\* milliseconds); the calls of the model make every quotient exact.
\* ------------------------------------------------------------------------
DriverInit ==
    [velocityControlEnabled |-> FALSE,
     targetPpsLeft |-> 0, targetPpsRight |-> 0,
     appliedPpsLeft |-> 0, appliedPpsRight |-> 0,
     integralL |-> 0, prevErrorL |-> 0,
     integralR |-> 0, prevErrorR |-> 0,
     gains |-> <<80, 20, 2>>,   \* Kp, Ki, Kd of both wheels
     rampTimeMs |-> 600,
     call |-> "none",           \* the last call made to the driver
     ran |-> FALSE,             \* an update: it went past its early returns
     still |-> FALSE]           \* an update: both measured deltas were zero

\* the anti-windup limit of the integrals, and it switched off
clampIntegralOff(i) == i
clampIntegral(i) == constrain(i, -(integralClamp * 1000), integralClamp * 1000)

Called(d, name) == [d EXCEPT !.call = name, !.ran = FALSE, !.still = FALSE]

enableVelocityControl(d, en) ==
    IF en THEN [Called(d, "enableVelocityControl") EXCEPT !.velocityControlEnabled = TRUE]
    ELSE [Called(d, "enableVelocityControl") EXCEPT
              !.velocityControlEnabled = FALSE,
              !.integralL = 0, !.prevErrorL = 0, !.appliedPpsLeft = 0,
              !.integralR = 0, !.prevErrorR = 0, !.appliedPpsRight = 0]

setTargetPulsesPerSecond(d, pps) ==
    [Called(d, "setTargetPulsesPerSecond") EXCEPT
        !.targetPpsLeft = pps, !.targetPpsRight = pps,
        !.appliedPpsLeft = IF d.velocityControlEnabled THEN @ ELSE pps,
        !.appliedPpsRight = IF d.velocityControlEnabled THEN @ ELSE pps]

setPIDGains(d, g) == [Called(d, "setPIDGains") EXCEPT !.gains = g]

setRampTime(d, ms) == [Called(d, "setRampTime") EXCEPT !.rampTimeMs = ms]

\* the soft-start ramp of one wheel
ramp(applied, target, elapsed, rampTimeMs) ==
    LET maxDelta == (Abs(target) * elapsed) \div rampTimeMs
    IN IF rampTimeMs = 0 THEN target
       ELSE IF applied < target THEN Min2(applied + maxDelta, target)
       ELSE IF applied > target THEN Max2(applied - maxDelta, target)
       ELSE applied

\* the PID of one wheel: <<integral, error, output in thousandths>>
pid(applied, deltaPulses, integral, prevError, elapsed, g) ==
    LET measPps == (deltaPulses * 1000) \div elapsed
        error == applied - measPps
        integ == clampIntegral(integral + error * elapsed)
        derivative == ((error - prevError) * 1000) \div elapsed
    IN <<integ, error, g[1] * error + (g[2] * integ) \div 1000 + g[3] * derivative>>

\* updateVelocityControl: <<the driver, the PWM channels>>
updateVelocityControl(d, m, leftDeltaPulses, rightDeltaPulses, dtMs, elapsed) ==
    LET c == [Called(d, "updateVelocityControl") EXCEPT
                  !.still = leftDeltaPulses = 0 /\ rightDeltaPulses = 0]
        aL == ramp(d.appliedPpsLeft, d.targetPpsLeft, elapsed, d.rampTimeMs)
        aR == ramp(d.appliedPpsRight, d.targetPpsRight, elapsed, d.rampTimeMs)
        pL == pid(aL, leftDeltaPulses, d.integralL, d.prevErrorL, elapsed, d.gains)
        pR == pid(aR, rightDeltaPulses, d.integralR, d.prevErrorR, elapsed, d.gains)
        pwmLeft == constrain(Round(pL[3], 1000), -MAX_SPEED, MAX_SPEED)
        pwmRight == constrain(Round(85 * pR[3], 100000), -MAX_SPEED, MAX_SPEED)
    IN IF ~d.velocityControlEnabled \/ dtMs = 0 \/ elapsed < pidIntervalMs
       THEN <<c, m>>
       ELSE <<[c EXCEPT !.ran = TRUE,
                        !.appliedPpsLeft = aL, !.appliedPpsRight = aR,
                        !.integralL = pL[1], !.prevErrorL = pL[2],
                        !.integralR = pR[1], !.prevErrorR = pR[2]],
              MotorsSetBoth(pwmLeft, pwmRight)>>

\* signed duty of a wheel: forward positive
LeftDuty(m) == m.leftLPWM - m.leftRPWM
RightDuty(m) == m.rightLPWM - m.rightRPWM
WheelsStopped(m) == LeftDuty(m) = 0 /\ RightDuty(m) = 0

\* ------------------------------------------------------------------------
\* Initial values (the member initialisers of the structs and globals)
\* ------------------------------------------------------------------------
RouteExecInit ==
    [ active |-> FALSE, routeIndex |-> 0, direction |-> 1,
      elapsed |-> 0,            \* millis() - requestMillis, counted up to delayMs
      delayMs |-> 0, currentPoint |-> 0, state |-> ROUTE_IDLE,
      awaitingConfirm |-> FALSE, waitingForReturnConfirm |-> FALSE,
      returnModeActive |-> FALSE, postFinishTurn |-> FALSE,
      obstacleActive |-> FALSE, obstacleSide |-> 0, obstacleState |-> 0,
      obstacleDl |-> 0,         \* readLeft()  - obstacleMoveStartLeft
      obstacleDr |-> 0,         \* readRight() - obstacleMoveStartRight
      obstacleMoveTargetPulses |-> 0, obstacleMoveMaxPulses |-> 0,
      obstacleProbePin |-> NoPin, obstacleWaitActive |-> FALSE,
      obstacleWaitElapsed |-> 0, \* millis() - obstacleWaitStartMillis
      moveDl |-> 0,             \* readLeft()  - moveStartLeft
      moveDr |-> 0,             \* readRight() - moveStartRight
      moveTargetPulses |-> 0, targetX |-> 0, targetY |-> 0 ]

WallFollowInit ==
    [ active |-> FALSE, side |-> 0, state |-> 0,
      allWallsZero |-> TRUE,    \* allWallsDetectedStart == 0
      allWallsElapsed |-> 0,    \* millis() - allWallsDetectedStart
      routeResumePending |-> FALSE, resumeAction |-> 0 ]

TurnInit ==
    [ turningInProgress |-> FALSE, turnTargetPulses |-> 0,
      turnDl |-> 0,             \* readLeft()  - turnStartLeft0
      turnDr |-> 0,             \* readRight() - turnStartRight0
      elapsed |-> 0 ]           \* millis() - turnStartTime

\* Observations: what the last step did and the history of the current leg.
\* They record the code's behaviour and never influence it.
ObsInit ==
    [ foreign |-> "none",       \* who issued a motion command over a turn in progress
      turnEnd |-> "none",       \* how a turn ended in the last step
      turnEndOwner |-> "none",  \* who had requested that turn
      finishTurn |-> FALSE,     \* the turn that ended was a post-finish 180 turn
      owner |-> "none",         \* who requested the turn in progress
      quiet |-> FALSE,          \* a route was stopped and nothing was requested since
      legSeq |-> << >>,         \* waypoint indices selected in the current leg
      legEnd |-> FALSE,         \* beginNextWaypoint found the current leg finished
      oob |-> FALSE,            \* the route table was read outside its bounds
      badIndex |-> FALSE,       \* beginNextWaypoint computed an index outside the table
      clean |-> FALSE,          \* first route since power-on, started without delay and run
                                \* since with no further request, obstacle, jam or timeout
      delayed |-> FALSE,        \* the route was started with a delay (where observed)
      afterDone |-> FALSE,      \* the route was started with the executor in ROUTE_DONE
                                \* (where observed)
      invalid |-> "none",       \* why the request of the last step was an invalid one
      reply |-> "none",         \* body of the HTTP reply to the request of the last step
      drove |-> FALSE,          \* a turn or a motion was commanded in the last step
      front |-> 0,              \* front minimum sampled by the debounce in the last step
      waited |-> 0,             \* debounce time read at the re-sample of the last step
      lateral |-> <<0, 0>>,     \* <<dL, dR>> sampled on the obstacle confirmed in the last step
      checked |-> 0,            \* obstacle phase whose end test ran in the last step (2 or 4)
      probe |-> 0,              \* probe distance sampled by that test
      travelled |-> 0,          \* pulses travelled in the phase as read by that test
      remaining |-> 0,          \* distance to the target computed after the crossing step
      reached |-> FALSE,        \* the turn in progress had its pulse target at the last step
      late |-> FALSE,           \* the turn in progress was past MAX_TURN_TIME at the last step
      cmd |-> "none",           \* character handed to processCommand in the last step
      stopCmd |-> FALSE,        \* that command was a stop, with a route or the wall follower active
      poseReset |-> FALSE,      \* that command reset the odometry pose
      wallStart |-> "none",     \* startWallFollowing ran in the last step: "idle" (no route
                                \* was active), "routeStopped" (the route was inactive when
                                \* the follower was marked active) or "overRoute"
      wallSide |-> 0,           \* the side it was asked for
      walls |-> "none",         \* what the Stopped state sampled in the last step: "all"
                                \* (the four sensors detect a wall) or "some"
      wallsFor |-> 0,           \* the all-walls time it read then (ms)
      resume |-> 0,             \* resume action the Following state executed in the last step
      wallTurns |-> << >>,      \* angles of the turns the wall follower requested in that step
      frontTurn |-> FALSE,      \* the Following state met a frontal wall with no resume action
      inBand |-> FALSE ]        \* the Following state sampled no frontal wall and the followed
                                \* wall inside the middle band

\* the state as one record, threaded through the handlers
World == [r |-> routeExec, wf |-> wallFollow, t |-> turn, m |-> motors, o |-> obs]

\* ------------------------------------------------------------------------
\* Motion commands, with the observation of who issues them
\* ------------------------------------------------------------------------
\* a component other than the turn controller (who) sets the wheels in motion
Drive(w, channels, who) ==
    [w EXCEPT !.m = channels,
              !.o.drove = TRUE,
              !.o.foreign = IF w.t.turningInProgress THEN who ELSE @]

\* motors.stop()
Halt(w) == [w EXCEPT !.m = MotorsStop]

\* void startAutoTurn(float angleDelta); who = the caller
startAutoTurn(w, angleDelta, who) ==
    [w EXCEPT !.t = [ turningInProgress |-> TRUE,
                      turnTargetPulses |-> TurnPulsesFor(angleDelta),
                      turnDl |-> 0, turnDr |-> 0, elapsed |-> 0 ],
              !.m = IF angleDelta > 0
                    THEN MotorsSetBoth(TURN_SPEED, -TURN_SPEED)
                    ELSE MotorsSetBoth(-TURN_SPEED, TURN_SPEED),
              !.o.owner = who,
              !.o.drove = TRUE,
              !.o.foreign = IF w.t.turningInProgress /\ who # "manual" THEN who ELSE @]

\* void stopRouteExecution()
stopRouteExecution(w) ==
    IF ~w.r.active THEN w
    ELSE [w EXCEPT !.r.active = FALSE,
                   !.r.state = ROUTE_IDLE,
                   !.m = MotorsStop,
                   !.o.quiet = TRUE]

\* void stopWallFollowing()
stopWallFollowing(w) ==
    IF ~w.wf.active THEN w
    ELSE [w EXCEPT !.wf.active = FALSE,
                   !.wf.state = 0,
                   !.m = MotorsStop]

\* the fields startWallFollowing writes once the route is out of the way
MarkFollowing(w, w2, side) ==
    [w2 EXCEPT !.wf.active = TRUE,
               !.wf.side = side,
               !.wf.state = 1,
               !.wf.allWallsZero = TRUE,
               !.wf.allWallsElapsed = 0,
               !.wf.routeResumePending = FALSE,
               !.wf.resumeAction = 0,
               !.o.quiet = FALSE,
               !.o.wallSide = side,
               !.o.wallStart = IF ~w.r.active THEN "idle"
                               ELSE IF w2.r.active THEN "overRoute"
                               ELSE "routeStopped"]

\* a variant that starts following without stopping the route
startWallFollowingOverRoute(w, side) ==
    MarkFollowing(w, IF w.wf.active THEN stopWallFollowing(w) ELSE w, side)

\* void startWallFollowing(int side)
startWallFollowing(w, side) ==
    LET w1 == IF w.wf.active THEN stopWallFollowing(w) ELSE w
        w2 == IF w1.r.active THEN stopRouteExecution(w1) ELSE w1
    IN MarkFollowing(w, w2, side)

\* ------------------------------------------------------------------------
\* Route executor
\* ------------------------------------------------------------------------
\* variants of the index arithmetic, used to check that the properties below
\* depend on it: the end test against count instead of effectiveCount, and
\* the forward index without the skip of waypoint 0
LegFinishedAtCount(currentPoint, count) == currentPoint >= count

WaypointIndexNoForwardSkip(direction, currentPoint, count) ==
    IF direction = 1 THEN currentPoint
    ELSE count - 2 - currentPoint

\* beginNextWaypoint: "currentPoint >= effectiveCount", effectiveCount = count - 1
LegFinished(currentPoint, count) == currentPoint >= count - 1

\* beginNextWaypoint: index of the waypoint to visit
WaypointIndex(direction, currentPoint, count) ==
    IF direction = 1 THEN currentPoint + 1
    ELSE count - 2 - currentPoint

\* beginNextWaypoint: "pIndex < 0 || pIndex >= count"
IndexOutOfRange(pIndex, count) == pIndex < 0 \/ pIndex >= count

\* void beginNextWaypoint(); delta = the turn computed from the pose
beginNextWaypoint(w, delta) ==
    LET idx == w.r.routeIndex IN
    IF idx < 0 \/ idx >= ROUTE_COUNT THEN stopRouteExecution(w)
    ELSE
    LET count == routesCounts[idx] IN
    IF count <= 1 THEN
        IF ~w.r.returnModeActive
        THEN [startAutoTurn([w EXCEPT !.r.postFinishTurn = TRUE], 180, "route")
                 EXCEPT !.r.state = ROUTE_TURNING]
        ELSE [w EXCEPT !.r.active = FALSE, !.r.state = ROUTE_DONE]
    ELSE IF LegFinished(w.r.currentPoint, count) THEN
        \* both branches (IDA finished / RETORNO finished) do the same
        [startAutoTurn([w EXCEPT !.r.postFinishTurn = TRUE, !.o.legEnd = TRUE],
                       180, "route")
            EXCEPT !.r.state = ROUTE_TURNING]
    ELSE
    LET pIndex == WaypointIndex(w.r.direction, w.r.currentPoint, count) IN
    IF IndexOutOfRange(pIndex, count)
    THEN stopRouteExecution([w EXCEPT !.o.badIndex = TRUE])
    ELSE
    LET inTable == pIndex >= 0 /\ pIndex < count
        \* routesPoints[idx][pIndex]; a read outside the table is recorded
        \* in obs.oob and the target is left as it was
        w1 == [w EXCEPT !.r.targetX = IF inTable THEN routesPoints[idx][pIndex + 1][1] ELSE @,
                        !.r.targetY = IF inTable THEN routesPoints[idx][pIndex + 1][2] ELSE @,
                        !.o.oob = @ \/ ~inTable,
                        !.o.legSeq = Append(@, pIndex)]
    IN [startAutoTurn(w1, delta, "route") EXCEPT !.r.state = ROUTE_TURNING]

\* startRouteExecution: the two tests that end in "return false"
StartRejected(r, routeIndex) ==
    r.active \/ routeIndex < 0 \/ routeIndex >= ROUTE_COUNT

\* bool startRouteExecution(int routeIndex, bool retorno, unsigned long delayMilliseconds)
\* (the state after the call; the call returns false exactly when StartRejected)
startRouteExecution(w, routeIndex, retorno, delayMilliseconds, delta) ==
    IF StartRejected(w.r, routeIndex) THEN w
    ELSE
    LET w1 == [w EXCEPT !.r.active = TRUE,
                        !.r.routeIndex = routeIndex,
                        !.r.direction = IF retorno THEN -1 ELSE 1,
                        !.r.elapsed = 0,
                        !.r.delayMs = delayMilliseconds,
                        !.r.currentPoint = 0,
                        !.r.state = IF delayMilliseconds > 0 THEN ROUTE_WAITING ELSE ROUTE_IDLE,
                        !.r.awaitingConfirm = TRUE,
                        !.o.quiet = FALSE,
                        !.o.legSeq = << >>,
                        !.o.legEnd = FALSE]
    IN IF delayMilliseconds = 0 THEN beginNextWaypoint(w1, delta) ELSE w1

\* ------------------------------------------------------------------------
\* Turn controller
\* ------------------------------------------------------------------------
\* handleAutoTurn: the turn has ended (completed or timed out)
TurnEnded(w, how) ==
    [w EXCEPT !.m = MotorsStop,
              !.t.turningInProgress = FALSE,
              !.o.turnEnd = how,
              !.o.turnEndOwner = w.o.owner,
              !.o.finishTurn = (how = "Completed" /\ w.r.postFinishTurn)]

\* handleAutoTurn: "millis() - turnStartTime > MAX_TURN_TIME"
TurnTimedOut(elapsed) == elapsed > MAX_TURN_TIME

\* a variant of the pulse test that misses the tick on which the count equals
\* the target
TurnReachedStrict(maxMoved, turnTargetPulses) == maxMoved > turnTargetPulses

\* handleAutoTurn: "maxMoved >= turnTargetPulses"
TurnReached(maxMoved, turnTargetPulses) == maxMoved >= turnTargetPulses

\* void handleAutoTurn()
handleAutoTurn(w) ==
    IF ~w.t.turningInProgress THEN w
    ELSE
    LET adl == Abs(w.t.turnDl)
        adr == Abs(w.t.turnDr)
        maxMoved == IF adl > adr THEN adl ELSE adr
    IN
    IF TurnReached(maxMoved, w.t.turnTargetPulses) THEN
        LET w1 == TurnEnded(w, "Completed") IN
        IF w.r.postFinishTurn THEN
            IF ~w.r.returnModeActive
            THEN [w1 EXCEPT !.r.postFinishTurn = FALSE,
                            !.r.awaitingConfirm = TRUE,
                            !.r.waitingForReturnConfirm = TRUE,
                            !.r.state = ROUTE_WAITING]
            ELSE [w1 EXCEPT !.r.postFinishTurn = FALSE,
                            !.r.active = FALSE,
                            !.r.state = ROUTE_DONE]
        ELSE w1
    ELSE IF w.r.obstacleActive THEN
        IF w.r.obstacleState = 1 \/ w.r.obstacleState = 3 THEN
            Drive([w EXCEPT !.r.obstacleState = IF @ = 1 THEN 2 ELSE 4,
                            !.r.obstacleMoveTargetPulses = AvoidStepPulses,
                            !.r.obstacleDl = 0,
                            !.r.obstacleDr = 0],
                  MotorsMoveForward(DEFAULT_SPEED), "handleAutoTurn")
        ELSE w
    ELSE IF TurnTimedOut(w.t.elapsed) THEN TurnEnded(w, "TimedOut")
    ELSE w

\* ------------------------------------------------------------------------
\* loop(): route execution state machine.  e = what the step reads from its
\* environment: e.ir[pin] the distance sampled on a pin (cm), e.delta the
\* turn toward the next waypoint (degrees), e.dist the distance to the
\* target (cm), the last two computed from the odometry pose.
\* ------------------------------------------------------------------------
\* ROUTE_MOVING: "frontMin <= OBSTACLE_THRESHOLD_CM"
ObstacleSeen(frontMin) == frontMin <= OBSTACLE_THRESHOLD_CM

\* a variant of the end test of the forward step without its safety cap
ForwardStepEndsNoCap(probeDist, maxm, maxPulses) ==
    probeDist >= OBSTACLE_THRESHOLD_CM + AVOID_CLEAR_MARGIN_CM

\* ROUTE_MOVING, obstacleState 2: the forward step ends
ForwardStepEnds(probeDist, maxm, maxPulses) ==
    probeDist >= OBSTACLE_THRESHOLD_CM + AVOID_CLEAR_MARGIN_CM \/ maxm >= maxPulses

\* recompute the movement toward the target and go on (ROUTE_TURNING when the
\* turn has ended, obstacleState 4 when the crossing step has ended)
MoveTowardTarget(w, e) ==
    LET w1 == [w EXCEPT !.r.moveTargetPulses = PulsesForCm(e.dist),
                        !.r.moveDl = 0,
                        !.r.moveDr = 0]
    IN IF w1.r.moveTargetPulses <= 0
       THEN beginNextWaypoint([w1 EXCEPT !.r.currentPoint = @ + 1], e.delta)
       ELSE [Drive(w1, MotorsMoveForward(DEFAULT_SPEED), "route") EXCEPT !.r.state = ROUTE_MOVING]

\* variants used to check that the properties below depend on the code: a
\* debounce that does not wait, the escape side the other way round, a
\* crossing step one pulse longer
DebounceElapsedAtOnce(waited) == waited >= 0

ChooseSideInverted(dL, dR) == IF dL > dR THEN -1 ELSE 1

CrossStepEndsLate(maxm, targetPulses) == maxm > targetPulses

\* ROUTE_MOVING: "millis() - obstacleWaitStartMillis >= OBSTACLE_DETECTION_DELAY_MS"
DebounceElapsed(waited) == waited >= OBSTACLE_DETECTION_DELAY_MS

\* ROUTE_MOVING: "(dL > dR) ? +1 : -1"
ChooseSide(dL, dR) == IF dL > dR THEN 1 ELSE -1

\* ROUTE_MOVING: "(obstacleSide == +1) ? IR_RIGHT_SIDE_PIN : IR_LEFT_SIDE_PIN"
ProbePinFor(side) == IF side = 1 THEN IR_RIGHT_SIDE_PIN ELSE IR_LEFT_SIDE_PIN

\* ROUTE_MOVING, obstacleState 4: "maxm >= routeExec.obstacleMoveTargetPulses"
CrossStepEnds(maxm, targetPulses) == maxm >= targetPulses

\* the ROUTE_MOVING branch
loopRouteMoving(w, e) ==
    LET frontMin == Min2(e.ir[IR_FRONT_LEFT_PIN], e.ir[IR_FRONT_RIGHT_PIN]) IN
    IF ~w.r.obstacleActive /\ ~w.r.obstacleWaitActive /\ ObstacleSeen(frontMin) THEN
        [w EXCEPT !.r.obstacleWaitActive = TRUE, !.r.obstacleWaitElapsed = 0,
                  !.o.front = frontMin]
    ELSE IF ~w.r.obstacleActive /\ w.r.obstacleWaitActive THEN
        IF DebounceElapsed(w.r.obstacleWaitElapsed) THEN
            \* re-sample of the front sensors
            LET ws == [w EXCEPT !.o.front = frontMin,
                                !.o.waited = w.r.obstacleWaitElapsed] IN
            IF ObstacleSeen(frontMin) THEN
                LET dL == e.ir[IR_LEFT_SIDE_PIN]
                    dR == e.ir[IR_RIGHT_SIDE_PIN]
                    side == ChooseSide(dL, dR)
                    w1 == [ws EXCEPT !.r.obstacleWaitActive = FALSE,
                                     !.r.obstacleSide = side,
                                     !.r.obstacleActive = TRUE,
                                     !.r.obstacleState = 1,
                                     !.m = MotorsStop,
                                     !.r.obstacleProbePin = ProbePinFor(side),
                                     !.r.obstacleMoveMaxPulses = AvoidMaxPulses,
                                     !.o.lateral = <<dL, dR>>]
                IN startAutoTurn(w1, side * 90, "obstacle")
            ELSE [ws EXCEPT !.r.obstacleWaitActive = FALSE]
        ELSE w
    ELSE IF w.r.obstacleActive THEN
        IF w.r.obstacleState = 2 THEN
            LET probeDist == e.ir[w.r.obstacleProbePin]
                dl == Abs(w.r.obstacleDl)
                dr == Abs(w.r.obstacleDr)
                maxm == IF dl > dr THEN dl ELSE dr
                wc == [w EXCEPT !.o.checked = 2, !.o.probe = probeDist,
                                !.o.travelled = maxm]
            IN IF ForwardStepEnds(probeDist, maxm, w.r.obstacleMoveMaxPulses)
               THEN startAutoTurn([wc EXCEPT !.m = MotorsStop, !.r.obstacleState = 3],
                                  -w.r.obstacleSide * 90, "obstacle")
               ELSE wc
        ELSE IF w.r.obstacleState = 4 THEN
            LET dl == Abs(w.r.obstacleDl)
                dr == Abs(w.r.obstacleDr)
                maxm == IF dl > dr THEN dl ELSE dr
                wc == [w EXCEPT !.o.checked = 4, !.o.travelled = maxm]
            IN IF CrossStepEnds(maxm, w.r.obstacleMoveTargetPulses)
               THEN MoveTowardTarget([wc EXCEPT !.m = MotorsStop,
                                                !.r.obstacleState = 5,
                                                !.r.obstacleActive = FALSE,
                                                !.o.remaining = e.dist], e)
               ELSE wc
        ELSE w
    ELSE
        \* normal movement completion check
        LET dl == Abs(w.r.moveDl)
            dr == Abs(w.r.moveDr)
            maxm == IF dl > dr THEN dl ELSE dr
        IN IF maxm >= w.r.moveTargetPulses
           THEN beginNextWaypoint([w EXCEPT !.m = MotorsStop,
                                            !.r.currentPoint = @ + 1], e.delta)
           ELSE w

\* "if (routeExec.active) { ... }" of loop()
loopRoute(w, e) ==
    IF ~w.r.active THEN w
    ELSE IF w.r.state = ROUTE_WAITING THEN
        IF w.r.elapsed >= w.r.delayMs THEN beginNextWaypoint(w, e.delta) ELSE w
    ELSE IF w.r.state = ROUTE_TURNING THEN
        IF ~w.t.turningInProgress THEN MoveTowardTarget(w, e) ELSE w
    ELSE IF w.r.state = ROUTE_MOVING THEN loopRouteMoving(w, e)
    ELSE w

\* ------------------------------------------------------------------------
\* loop(): wall follower
\* ------------------------------------------------------------------------
WallDetected(d) == d <= WALL_FOLLOW_THRESHOLD_CM

\* resume of the paused route (the code inside "if (routeExec.active)")
ResumeRoute(w, e) == IF w.r.active THEN MoveTowardTarget(w, e) ELSE w

\* a variant of the timeout test that needs more than the timeout
AllWallsTimedOutLate(elapsed) == elapsed > ALL_WALLS_TIMEOUT_MS

\* "millis() - wallFollow.allWallsDetectedStart >= ALL_WALLS_TIMEOUT_MS"
AllWallsTimedOut(elapsed) == elapsed >= ALL_WALLS_TIMEOUT_MS

\* state 3: stopped, all walls detected
loopWallStopped(w, allWalls) ==
    LET w0 == [w EXCEPT !.o.walls = IF allWalls THEN "all" ELSE "some",
                        !.o.wallsFor = IF allWalls /\ ~w.wf.allWallsZero
                                       THEN w.wf.allWallsElapsed ELSE 0]
    IN
    IF allWalls THEN
        IF w.wf.allWallsZero
        THEN [w0 EXCEPT !.wf.allWallsZero = FALSE, !.wf.allWallsElapsed = 0]
        ELSE IF AllWallsTimedOut(w.wf.allWallsElapsed) THEN stopWallFollowing(w0)
        ELSE w0
    ELSE [w0 EXCEPT !.wf.state = 1, !.wf.allWallsZero = TRUE, !.wf.allWallsElapsed = 0]

\* state 2: turning.  The sketch tests "autoTurnActive", a name it declares
\* nowhere; the flag of the turn controller, turningInProgress, is meant.
loopWallTurning(w, e) ==
    IF ~w.t.turningInProgress THEN
        IF w.wf.routeResumePending /\ w.wf.resumeAction = 1
        THEN stopWallFollowing(ResumeRoute(w, e))
        ELSE [w EXCEPT !.wf.state = 1]
    ELSE w

\* a turn requested by the wall follower
wallTurn(w, angleDelta) ==
    [startAutoTurn(w, angleDelta, "wall") EXCEPT !.o.wallTurns = Append(@, angleDelta)]

\* the band of distances to the followed wall that needs no correction (cm)
InBand(followSideDist) == ~(followSideDist < 15) /\ ~(followSideDist > 25)

\* state 1: following.  The three parts run one after the other in one tick.
loopWallFollowing(w, e) ==
    LET frontLeftWall == WallDetected(e.ir[IR_FRONT_LEFT_PIN])
        frontRightWall == WallDetected(e.ir[IR_FRONT_RIGHT_PIN])
        leftWall == WallDetected(e.ir[IR_LEFT_SIDE_PIN])
        rightWall == WallDetected(e.ir[IR_RIGHT_SIDE_PIN])
        allWalls == frontLeftWall /\ frontRightWall /\ leftWall /\ rightWall
        followSideDist == IF w.wf.side = 1 THEN e.ir[IR_LEFT_SIDE_PIN] ELSE e.ir[IR_RIGHT_SIDE_PIN]
        oppositeSideDist == IF w.wf.side = 1 THEN e.ir[IR_RIGHT_SIDE_PIN] ELSE e.ir[IR_LEFT_SIDE_PIN]
        oppositeSideWall == WallDetected(oppositeSideDist)
        frontWall == WallDetected(Min2(e.ir[IR_FRONT_LEFT_PIN], e.ir[IR_FRONT_RIGHT_PIN]))
        \* 1. latch a resume action
        w1 == IF ~frontLeftWall /\ ~frontRightWall /\ ~oppositeSideWall /\ ~w.wf.routeResumePending
              THEN [w EXCEPT !.wf.routeResumePending = TRUE, !.wf.resumeAction = 2]
              ELSE IF ~frontLeftWall /\ ~frontRightWall /\ ~w.wf.routeResumePending
              THEN [w EXCEPT !.wf.routeResumePending = TRUE, !.wf.resumeAction = 2]
              ELSE IF ~oppositeSideWall /\ ~w.wf.routeResumePending
              THEN [w EXCEPT !.wf.routeResumePending = TRUE, !.wf.resumeAction = 1]
              ELSE w
        \* 2. execute the latched action
        w2 == IF w1.wf.routeResumePending THEN
                  IF w1.wf.resumeAction = 1 THEN
                      [wallTurn([w1 EXCEPT !.wf.state = 2], 90 * w1.wf.side)
                          EXCEPT !.wf.routeResumePending = FALSE, !.wf.resumeAction = 0,
                                 !.o.resume = 1]
                  ELSE IF w1.wf.resumeAction = 2
                  THEN [stopWallFollowing(ResumeRoute(w1, e)) EXCEPT !.o.resume = 2]
                  ELSE w1
              ELSE w1
        w3 == [w2 EXCEPT !.o.frontTurn = ~allWalls /\ frontWall /\ ~w1.wf.routeResumePending,
                         !.o.inBand = /\ ~frontLeftWall /\ ~frontRightWall
                                      /\ InBand(followSideDist)]
        \* 3. all walls / frontal wall / proportional control
        leftSpeed == IF followSideDist < 15 THEN (IF w.wf.side = 1 THEN WALL_FOLLOW_SPEED ELSE WALL_FOLLOW_SPEED - 20)
                     ELSE IF followSideDist > 25 THEN (IF w.wf.side = 1 THEN WALL_FOLLOW_SPEED - 20 ELSE WALL_FOLLOW_SPEED)
                     ELSE WALL_FOLLOW_SPEED
        rightSpeed == IF followSideDist < 15 THEN (IF w.wf.side = 1 THEN WALL_FOLLOW_SPEED - 20 ELSE WALL_FOLLOW_SPEED)
                      ELSE IF followSideDist > 25 THEN (IF w.wf.side = 1 THEN WALL_FOLLOW_SPEED ELSE WALL_FOLLOW_SPEED - 20)
                      ELSE WALL_FOLLOW_SPEED
    IN IF allWalls THEN
           [w3 EXCEPT !.m = MotorsStop, !.wf.state = 3,
                      !.wf.allWallsZero = FALSE, !.wf.allWallsElapsed = 0]
       ELSE IF frontWall THEN
           wallTurn([w3 EXCEPT !.wf.state = 2, !.m = MotorsStop], -90 * w3.wf.side)
       ELSE Drive(w3, MotorsSetBoth(leftSpeed, rightSpeed), "wall")

\* "if (wallFollow.active && !routeExec.active) { ... }" of loop()
loopWallFollow(w, e) ==
    IF ~(w.wf.active /\ ~w.r.active) THEN w
    ELSE IF w.wf.state = 3 THEN
        loopWallStopped(w, \A p \in Pins : WallDetected(e.ir[p]))
    ELSE IF w.wf.state = 2 THEN loopWallTurning(w, e)
    ELSE loopWallFollowing(w, e)

\* ------------------------------------------------------------------------
\* Environment of a control step: encoder edges and the passing of time
\* ------------------------------------------------------------------------
\* the differences the code can still read
TurnLive(w) == w.t.turningInProgress
MoveLive(w) == w.r.state = ROUTE_MOVING
ObstacleLive(w) == w.r.obstacleState = 2 \/ w.r.obstacleState = 4

\* pulses counted by the encoder ISRs since the last control step: a driven
\* wheel yields one pulse in the direction of its duty, or none (mvL, mvR)
Physics(w, mvL, mvR) ==
    LET pl == IF mvL THEN Sign(LeftDuty(w.m)) ELSE 0
        pr == IF mvR THEN Sign(RightDuty(w.m)) ELSE 0
    IN [w EXCEPT !.t.turnDl = IF TurnLive(w) THEN @ + pl ELSE @,
                 !.t.turnDr = IF TurnLive(w) THEN @ + pr ELSE @,
                 !.r.moveDl = IF MoveLive(w) THEN @ + pl ELSE @,
                 !.r.moveDr = IF MoveLive(w) THEN @ + pr ELSE @,
                 !.r.obstacleDl = IF ObstacleLive(w) THEN @ + pl ELSE @,
                 !.r.obstacleDr = IF ObstacleLive(w) THEN @ + pr ELSE @]

\* the cap of the model on the tracked differences
WithinCap(w) ==
    \A d \in {w.t.turnDl, w.t.turnDr, w.r.moveDl, w.r.moveDr, w.r.obstacleDl, w.r.obstacleDr} :
        Abs(d) <= MaxDelta

\* a timer is counted until the comparison of the code that reads it is decided
Count(elapsed, dt, limit) == IF elapsed > limit THEN elapsed ELSE elapsed + dt

AdvanceTime(w, dt) ==
    [w EXCEPT !.t.elapsed = IF w.t.turningInProgress THEN Count(@, dt, MAX_TURN_TIME) ELSE @,
              !.r.elapsed = IF w.r.active /\ @ < w.r.delayMs THEN @ + dt ELSE @,
              !.r.obstacleWaitElapsed =
                  IF w.r.obstacleWaitActive /\ @ < OBSTACLE_DETECTION_DELAY_MS THEN @ + dt ELSE @,
              !.wf.allWallsElapsed =
                  IF ~w.wf.allWallsZero /\ @ < ALL_WALLS_TIMEOUT_MS THEN @ + dt ELSE @]

\* values the code cannot read before it writes them again are kept at their
\* initial value
Canon(w) ==
    [w EXCEPT !.t.turnDl = IF TurnLive(w) THEN @ ELSE 0,
              !.t.turnDr = IF TurnLive(w) THEN @ ELSE 0,
              !.t.elapsed = IF TurnLive(w) THEN @ ELSE 0,
              !.t.turnTargetPulses = IF TurnLive(w) THEN @ ELSE 0,
              !.o.owner = IF TurnLive(w) THEN @ ELSE "none",
              !.r.moveDl = IF MoveLive(w) THEN @ ELSE 0,
              !.r.moveDr = IF MoveLive(w) THEN @ ELSE 0,
              !.r.moveTargetPulses = IF MoveLive(w) THEN @ ELSE 0,
              !.r.obstacleDl = IF ObstacleLive(w) THEN @ ELSE 0,
              !.r.obstacleDr = IF ObstacleLive(w) THEN @ ELSE 0,
              !.r.obstacleWaitElapsed = IF w.r.obstacleWaitActive THEN @ ELSE 0,
              !.r.obstacleSide = IF w.r.obstacleActive THEN @ ELSE 0,
              !.r.obstacleProbePin = IF w.r.obstacleActive THEN @ ELSE NoPin,
              !.r.obstacleMoveMaxPulses = IF w.r.obstacleActive THEN @ ELSE 0,
              !.r.obstacleMoveTargetPulses = IF w.r.obstacleActive THEN @ ELSE 0,
              \* an expired start delay reads the same whatever its length
              !.r.elapsed = IF w.r.active /\ @ < w.r.delayMs THEN @ ELSE 0,
              \* every value from the end of the leg on reads the same
              !.r.currentPoint = Min2(@, routesCounts[w.r.routeIndex]),
              !.r.delayMs = IF w.r.active /\ w.r.elapsed < @ THEN @ ELSE 0,
              !.wf.allWallsElapsed = IF w.wf.allWallsZero THEN 0 ELSE @]

\* the sensors a control step can sample in state w; the others are not read
PinsRead(w) ==
    IF w.wf.active THEN Pins
    ELSE IF w.r.active /\ w.r.state = ROUTE_MOVING THEN
        IF w.r.obstacleActive
        THEN (IF w.r.obstacleState = 2 THEN {w.r.obstacleProbePin} ELSE {})
        ELSE {IR_FRONT_LEFT_PIN, IR_FRONT_RIGHT_PIN}
             \cup (IF w.r.obstacleWaitActive THEN {IR_LEFT_SIDE_PIN, IR_RIGHT_SIDE_PIN} ELSE {})
    ELSE {}

\* the readings of one control step, with the distances drawn from RD while
\* a route is active and from WD otherwise
Readings(w, RD, WD) ==
    { ir \in [Pins -> (IF w.r.active THEN RD ELSE WD) \cup {ClearDist}] :
        \A p \in Pins \ PinsRead(w) : ir[p] = ClearDist }

\* what one control step reads
Envs(w, RD, WD) ==
    { [ir |-> ir, delta |-> d, dist |-> c] :
        ir \in Readings(w, RD, WD),
        d \in (IF w.r.active THEN Deltas ELSE {0}),
        c \in (IF w.r.active /\ (w.r.state = ROUTE_TURNING \/ w.r.obstacleState = 4)
               THEN TargetDists ELSE {0}) }

\* ------------------------------------------------------------------------
\* void processCommand(char cmd)
\* ------------------------------------------------------------------------
\* (int)(MAX_SPEED * 0.40f) and (int)(MAX_SPEED * 0.20f)
ManualSpeed == (MAX_SPEED * 40) \div 100
ManualTurnSpeed == (MAX_SPEED * 20) \div 100

\* toupper(cmd), over the characters of the model
toupper(c) == IF c = "x" THEN "X" ELSE c

\* MotorDriver::testMotors(): four runs of delay(1000), stop(), delay(300)
TestMotorsMs == 4 * (1000 + 300)

\* encoders.getPulsesPerRevolution(): the pulses of one wheel circumference
\* (pi * 15.5 = 48.69 cm), in the model's pulses per metre
RevolutionPulses == (2 * 4869 * PulsesPerMeter + 10000) \div 20000

\* a variant of the guard that lets a reset through
CommandRejectedButReset(turningInProgress, cmd) ==
    turningInProgress /\ cmd \notin {"X", "R"}

\* "if (turningInProgress && cmd != 'X') return;"
CommandRejected(turningInProgress, cmd) == turningInProgress /\ cmd # "X"

\* case 'T': testMotors() runs each wheel forward and backward for the same
\* time (the pulses cancel) and leaves the wheels stopped; the loop is blocked
\* meanwhile
selfTest(w) == Halt(AdvanceTime(w, TestMotorsMs))

\* case 'V': both wheels forward until the leading one counted one revolution,
\* then stop; the loop is blocked meanwhile.  The measured count is the target
\* itself, so setPulsesPerRevolution leaves the calibration as it was.
calibrate(w) ==
    LET n == RevolutionPulses
        w1 == [w EXCEPT !.r.moveDl = IF MoveLive(w) THEN Min2(@ + n, MaxDelta) ELSE @,
                        !.r.moveDr = IF MoveLive(w) THEN Min2(@ + n, MaxDelta) ELSE @,
                        !.r.obstacleDl = IF ObstacleLive(w) THEN Min2(@ + n, MaxDelta) ELSE @,
                        !.r.obstacleDr = IF ObstacleLive(w) THEN Min2(@ + n, MaxDelta) ELSE @]
    IN Halt(AdvanceTime(w1, TimeStep))

\* case 'V', the locals of the wait loop: dl and dr as the last poll read
\* them, and the time spent in delay(20) so far (ms)
CalibrationIdle == [dl |-> 0, dr |-> 0, waited |-> 0]

processCommand(w, c) ==
    LET cmd == toupper(c)
        w0 == [w EXCEPT !.o.cmd = c]
    IN
    IF CommandRejected(w.t.turningInProgress, cmd) THEN w0
    ELSE IF cmd = "X"
    THEN [w0 EXCEPT !.m = MotorsStop, !.t.turningInProgress = FALSE,
                    !.o.stopCmd = w.r.active \/ w.wf.active]
    ELSE
    LET w1 == [w0 EXCEPT !.o.quiet = FALSE] IN
    CASE cmd = "W" -> [w1 EXCEPT !.m = MotorsMoveForward(ManualSpeed)]
      [] cmd = "S" -> [w1 EXCEPT !.m = MotorsMoveBackward(ManualSpeed)]
      [] cmd = "A" -> startAutoTurn(w1, -90, "manual")
      [] cmd = "D" -> startAutoTurn(w1, 90, "manual")
      [] cmd = "Q" -> [w1 EXCEPT !.m = MotorsTurnLeft(ManualTurnSpeed)]
      [] cmd = "E" -> [w1 EXCEPT !.m = MotorsTurnRight(ManualTurnSpeed)]
      [] cmd = "R" -> [w1 EXCEPT !.m = MotorsStop, !.t.turningInProgress = FALSE,
                                 !.o.poseReset = TRUE]
      [] cmd = "T" -> selfTest(w1)
      [] cmd = "V" -> calibrate(w1)
      [] OTHER -> w1

\* ------------------------------------------------------------------------
\* class Encoder
\* ------------------------------------------------------------------------
\* The static members after Encoder::init(), the interrupt mask of the CPU
\* and the encoder interrupts latched by the hardware.
EncoderInit ==
    [ leftPulses |-> 0, rightPulses |-> 0,
      leftInverted |-> FALSE, rightInverted |-> TRUE,
      masked |-> FALSE,         \* noInterrupts() is in force
      pendingL |-> FALSE,       \* an edge of the left B channel waits for its ISR
      pendingR |-> FALSE,
      op |-> "none",            \* the read or reset the loop is inside of
      at |-> 0,                 \* the instruction of it that runs next
      temp |-> 0,               \* "long temp" of readLeft / readRight
      \* observations
      histL |-> << >>,          \* levels <<A, B>> sampled by the left ISR since the reset
      histR |-> << >>,
      held |-> {},              \* values the counter read held since the call
      done |-> "none",          \* the operation that returned in the last step
      ret |-> 0,                \* the value it returned
      retHeld |-> TRUE,         \* the counter held that value during the call
      sinceL |-> 0,             \* deltas the left ISR added since the last reset took effect
      sinceR |-> 0 ]

Wheels == {"L", "R"}
EncoderOps == {"readLeft", "readRight", "resetLeft", "resetRight", "resetBoth"}

\* the halves of a counter and the value they make
Lo(v) == v % Radix
Hi(v) == v \div Radix
Compose(hi, lo) == hi * Radix + lo

\* the instructions of each operation, in order
Program(op) ==
    CASE op = "readLeft"   -> << "mask", "loadLoL", "loadHiL", "unmask", "ret" >>
      [] op = "readRight"  -> << "mask", "loadLoR", "loadHiR", "unmask", "ret" >>
      [] op = "resetLeft"  -> << "mask", "storeLoL", "storeHiL", "unmask", "ret" >>
      [] op = "resetRight" -> << "mask", "storeLoR", "storeHiR", "unmask", "ret" >>
      [] op = "resetBoth"  -> << "mask", "storeLoL", "storeHiL", "storeLoR", "storeHiR",
                                 "unmask", "ret" >>

Instr(e) == IF e.op = "none" THEN "none" ELSE Program(e.op)[e.at]

\* a variant of the ISR arithmetic that ignores the inversion flag
isrDeltaNotInverted(A, B, inverted) == IF A = B THEN -1 ELSE 1

\* "int delta = (A == B) ? -1 : 1; if (inverted) delta = -delta;"
isrDelta(A, B, inverted) ==
    LET delta == IF A = B THEN -1 ELSE 1
    IN IF inverted THEN -delta ELSE delta

\* Encoder::leftEncoderISR / rightEncoderISR with the levels A, B read by
\* digitalRead; record = the levels are remembered
encoderISR(e, wheel, A, B, record) ==
    IF wheel = "L" THEN
        LET v == e.leftPulses + isrDelta(A, B, e.leftInverted)
        IN [e EXCEPT !.leftPulses = v,
                     !.pendingL = FALSE,
                     !.done = "none", !.ret = 0,
                     !.histL = IF record THEN Append(@, <<A, B>>) ELSE @,
                     !.held = IF e.op = "readLeft" THEN @ \cup {v} ELSE @,
                     !.sinceL = @ + isrDelta(A, B, e.leftInverted)]
    ELSE
        LET v == e.rightPulses + isrDelta(A, B, e.rightInverted)
        IN [e EXCEPT !.rightPulses = v,
                     !.pendingR = FALSE,
                     !.done = "none", !.ret = 0,
                     !.histR = IF record THEN Append(@, <<A, B>>) ELSE @,
                     !.held = IF e.op = "readRight" THEN @ \cup {v} ELSE @,
                     !.sinceR = @ + isrDelta(A, B, e.rightInverted)]

\* a variant of noInterrupts() that masks nothing
noInterruptsNoMask(e) == e

\* noInterrupts() and interrupts()
noInterrupts(e) == [e EXCEPT !.masked = TRUE]
interrupts(e) == [e EXCEPT !.masked = FALSE]

\* the call of a read or a reset
encoderCall(e, op) ==
    [e EXCEPT !.op = op, !.at = 1, !.temp = 0, !.done = "none", !.ret = 0,
              !.retHeld = TRUE,
              !.held = IF op = "readLeft" THEN {e.leftPulses}
                       ELSE IF op = "readRight" THEN {e.rightPulses}
                       ELSE {}]

\* the reset takes effect with its first store
ResetTakesEffect(e) ==
    IF e.op = "resetBoth" THEN (IF e.at = 2 THEN Wheels ELSE {})
    ELSE IF e.op = "resetLeft" /\ e.at = 2 THEN {"L"}
    ELSE IF e.op = "resetRight" /\ e.at = 2 THEN {"R"}
    ELSE {}

\* one instruction of the operation the loop is inside of
encoderStep(e) ==
    LET i == Instr(e)
        e1 == [e EXCEPT !.at = @ + 1,
                        !.sinceL = IF "L" \in ResetTakesEffect(e) THEN 0 ELSE @,
                        !.sinceR = IF "R" \in ResetTakesEffect(e) THEN 0 ELSE @,
                        !.histL = IF "L" \in ResetTakesEffect(e) THEN << >> ELSE @,
                        !.histR = IF "R" \in ResetTakesEffect(e) THEN << >> ELSE @]
    IN CASE i = "mask"     -> noInterrupts(e1)
         [] i = "unmask"   -> interrupts(e1)
         [] i = "loadLoL"  -> [e1 EXCEPT !.temp = Lo(e.leftPulses)]
         [] i = "loadHiL"  -> [e1 EXCEPT !.temp = Compose(Hi(e.leftPulses), @)]
         [] i = "loadLoR"  -> [e1 EXCEPT !.temp = Lo(e.rightPulses)]
         [] i = "loadHiR"  -> [e1 EXCEPT !.temp = Compose(Hi(e.rightPulses), @)]
         [] i = "storeLoL" -> [e1 EXCEPT !.leftPulses = Compose(Hi(@), 0)]
         [] i = "storeHiL" -> [e1 EXCEPT !.leftPulses = Compose(0, Lo(@))]
         [] i = "storeLoR" -> [e1 EXCEPT !.rightPulses = Compose(Hi(@), 0)]
         [] i = "storeHiR" -> [e1 EXCEPT !.rightPulses = Compose(0, Lo(@))]
         [] i = "ret"      ->
               [e EXCEPT !.op = "none", !.at = 0, !.temp = 0, !.held = {},
                         !.done = e.op,
                         !.ret = IF e.op \in {"readLeft", "readRight"} THEN e.temp ELSE 0,
                         !.retHeld = e.op \in {"readLeft", "readRight"} => e.temp \in e.held]

\* a whole operation, from the call to the return, with no interrupt served
\* in between
RECURSIVE encoderRun(_)
encoderRun(e) == IF e.op = "none" THEN e ELSE encoderRun(encoderStep(e))

\* ------------------------------------------------------------------------
\* Odometry.  Lengths are in units of 0.001 cm, angles in units of 0.0001 rad.
\* ------------------------------------------------------------------------
OdometryInit ==
    [ x |-> 0, y |-> 0, theta |-> 0,
      lastLeftPulses |-> 0, lastRightPulses |-> 0,
      at |-> "idle",            \* "idle", or the operation the loop is inside of,
                                \* between its two accesses of the counters
      currentLeftPulses |-> 0,  \* "long currentLeftPulses" of update()
      \* observations
      sumL |-> 0, sumR |-> 0,   \* pulse deltas integrated since the last init or reset
      baseL |-> 0, baseR |-> 0, \* the counters as that init read them (0 for a reset)
      raced |-> FALSE,          \* an edge arrived between resetBoth() and the
                                \* zeroing of the snapshots, since the last reset
      spun |-> FALSE,           \* the last operation was an update of equal and
                                \* opposite, non-zero pulse deltas
      edges |-> 0 ]             \* edges so far

\* Encoder::pulsesToCentimeters
pulsesToCentimeters(pulses) == Sign(pulses) * ((Abs(pulses) * 100000) \div PulsesPerMeter)

\* "while (a > PI) a -= 2.0 * PI; while (a < -PI) a += 2.0 * PI;"
RECURSIVE normalizeAngle(_)
normalizeAngle(a) ==
    IF a > Pi THEN normalizeAngle(a - TwoPi)
    ELSE IF a < -Pi THEN normalizeAngle(a + TwoPi)
    ELSE a

\* sin() and cos() of an angle in [-PI, PI], in thousandths (Bhaskara's formula)
sin(a) ==
    LET p == (Abs(a) * (Pi - Abs(a))) \div 100000
    IN Sign(a) * ((16000 * p) \div (49350 - 4 * p))
cos(a) == sin(normalizeAngle(a + Pi \div 2))

\* deltaTheta = (deltaRightCm - deltaLeftCm) / WHEEL_BASE_CM, and with the two
\* wheels exchanged
deltaThetaSwapped(deltaLeftCm, deltaRightCm) == Round(100 * (deltaLeftCm - deltaRightCm), WheelBaseMm)
deltaTheta(deltaLeftCm, deltaRightCm) == Round(100 * (deltaRightCm - deltaLeftCm), WheelBaseMm)

\* Odometry::update from the counters it read
integrate(o, currentLeftPulses, currentRightPulses) ==
    LET deltaLeftPulses == currentLeftPulses - o.lastLeftPulses
        deltaRightPulses == currentRightPulses - o.lastRightPulses
        deltaLeftCm == pulsesToCentimeters(deltaLeftPulses)
        deltaRightCm == pulsesToCentimeters(deltaRightPulses)
        twiceDistance == deltaLeftCm + deltaRightCm
        dTheta == deltaTheta(deltaLeftCm, deltaRightCm)
        newTheta == normalizeAngle(o.theta + dTheta)
        midTheta == normalizeAngle(o.theta + Round(dTheta, 2))
        moved == Abs(twiceDistance) > 2 * DistEps
    IN [o EXCEPT !.x = IF moved THEN @ + Round(twiceDistance * cos(midTheta), 2000) ELSE @,
                 !.y = IF moved THEN @ + Round(twiceDistance * sin(midTheta), 2000) ELSE @,
                 !.theta = newTheta,
                 !.lastLeftPulses = currentLeftPulses,
                 !.lastRightPulses = currentRightPulses,
                 !.sumL = @ + deltaLeftPulses,
                 !.sumR = @ + deltaRightPulses,
                 !.spun = deltaLeftPulses = -deltaRightPulses /\ deltaLeftPulses # 0]

\* resetPosition after resetBoth(): the snapshots, and a variant that keeps them
keepSnapshots(o) == o
zeroSnapshots(o) == [o EXCEPT !.lastLeftPulses = 0, !.lastRightPulses = 0]

\* ------------------------------------------------------------------------
\* Actions
\* ------------------------------------------------------------------------
\* the observations of one step start empty
Fresh(w) == [w EXCEPT !.o.foreign = "none", !.o.turnEnd = "none",
                      !.o.turnEndOwner = "none", !.o.finishTurn = FALSE,
                      !.o.invalid = "none", !.o.reply = "none",
                      !.o.drove = FALSE,
                      !.o.front = 0, !.o.waited = 0, !.o.lateral = <<0, 0>>,
                      !.o.checked = 0, !.o.probe = 0, !.o.travelled = 0,
                      !.o.remaining = 0, !.o.reached = FALSE, !.o.late = FALSE,
                      !.o.cmd = "none", !.o.stopCmd = FALSE, !.o.poseReset = FALSE,
                      !.o.wallStart = "none", !.o.wallSide = 0,
                      !.o.walls = "none", !.o.wallsFor = 0,
                      !.o.resume = 0, !.o.wallTurns = << >>,
                      !.o.frontTurn = FALSE, !.o.inBand = FALSE]

Commit(w, next) ==
    /\ routeExec' = w.r
    /\ wallFollow' = w.wf
    /\ turn' = w.t
    /\ motors' = w.m
    /\ obs' = w.o
    /\ pc' = next
    /\ enc' = enc
    /\ drv' = drv
    /\ cal' = cal
    /\ odo' = odo

Init ==
    /\ routeExec = RouteExecInit
    /\ wallFollow = WallFollowInit
    /\ turn = TurnInit
    /\ motors = MotorsStop
    /\ obs = ObsInit
    /\ pc = "request"
    /\ enc = EncoderInit
    /\ drv = DriverInit
    /\ cal = CalibrationIdle
    /\ odo = OdometryInit

\* the step keeps the run clean when no wheel jammed, no turn timed out and no
\* sensor saw anything
Undisturbed(w, moved, e) ==
    [w EXCEPT !.o.clean = /\ @
                          /\ moved
                          /\ w.o.turnEnd # "TimedOut"
                          /\ \A p \in Pins : e.ir[p] = ClearDist]

\* a request other than the first start ends the clean run
Disturbed(w) == [w EXCEPT !.o.clean = FALSE]

\* the state at power-on
PowerOn(w) ==
    /\ w.r = RouteExecInit
    /\ w.wf = WallFollowInit
    /\ w.t = TurnInit
    /\ w.m = MotorsStop

\* the encoder counts differences only while some difference is read
Moves(w) ==
    IF ~WheelsStopped(w.m) /\ (TurnLive(w) \/ MoveLive(w) \/ ObstacleLive(w))
    THEN BOOLEAN ELSE {FALSE}

\* what handleAutoTurn is about to read: the encoder counts of the turn
\* against its target, the clock against MAX_TURN_TIME
TurnInputs(w) ==
    [w EXCEPT !.o.reached = /\ w.t.turningInProgress
                            /\ Max2(Abs(w.t.turnDl), Abs(w.t.turnDr)) >= w.t.turnTargetPulses,
              !.o.late = w.t.turningInProgress /\ w.t.elapsed > MAX_TURN_TIME]

\* loop(): handleAutoTurn, the route state machine and the wall follower,
\* dt ms after the previous iteration, with the sensor distances drawn from
\* RD (route active) and WD
ControlAt(RD, WD, dt) ==
    /\ pc = "control"
    /\ \E mv \in Moves(World) :
          LET w0 == Physics(Fresh(World), mv, mv)
              w1 == handleAutoTurn(TurnInputs(AdvanceTime(w0, dt)))
          IN /\ WithinCap(w0)
             /\ \E e \in Envs(w1, RD, WD) :
                   Commit(Canon(Undisturbed(loopWallFollow(loopRoute(w1, e), e),
                                            mv \/ Moves(World) = {FALSE}, e)),
                          "request")

Control(RD, WD) == ControlAt(RD, WD, TimeStep)

\* a control step with the route executor facing obstacles
ControlStep == Control(RouteDists, {ClearDist})

\* a control step with the wall follower facing walls and the route's path clear
WallControlStep == Control({ClearDist}, Dists)

\* the debounce of the route executor is running and its timer is read
DebounceLive(r) ==
    r.active /\ r.state = ROUTE_MOVING /\ ~r.obstacleActive /\ r.obstacleWaitActive

\* a control step half a time step after the previous one, while the debounce
\* timer runs
FastControlStep ==
    /\ DebounceLive(routeExec)
    /\ ControlAt(RouteDists, {ClearDist}, TimeStep \div 2)

\* a control step with nothing in reach of the sensors
ClearControlStep == Control({ClearDist}, {ClearDist})

\* processCommand, from the serial port or from GET /cmd?c=
Command ==
    /\ pc = "request"
    /\ \E cmd \in Commands :
          Commit(Canon(Disturbed(processCommand(Fresh(World), cmd))), "control")

\* handleClient: GET /start_route with a delay from delays; observe = the
\* reply is observed
StartRouteRequest(observe, delays) ==
    /\ pc = "request"
    /\ \E rIdx \in RouteArgs, retorno \in BOOLEAN, delayMs \in delays, d \in Deltas :
          LET w1 == startRouteExecution(Fresh(World), rIdx, retorno, delayMs, d)
              first == PowerOn(World) /\ w1.r.active /\ delayMs = 0
              ok == ~StartRejected(routeExec, rIdx)
              why == IF routeExec.active THEN "routeActive"
                     ELSE IF rIdx \notin 0..(ROUTE_COUNT - 1) THEN "unknownRoute"
                     ELSE "none"
              w2 == IF observe
                    THEN [w1 EXCEPT !.o.reply = IF ok THEN "OK" ELSE "BUSY",
                                    !.o.invalid = why,
                                    !.o.delayed = IF ok THEN delayMs > 0 ELSE @,
                                    !.o.afterDone = IF ok THEN routeExec.state = ROUTE_DONE
                                                    ELSE @]
                    ELSE w1
          IN Commit(Canon([w2 EXCEPT !.o.clean = first]), "control")

HttpStartRoute == StartRouteRequest(FALSE, DelayArgs)

HttpStartRouteReply == StartRouteRequest(TRUE, LongDelayArgs)

\* handleClient: GET /stop_route
HttpStopRoute ==
    /\ pc = "request"
    /\ Commit(Canon(Disturbed(stopRouteExecution(Fresh(World)))), "control")

\* a variant of the confirm test that does not look at the state
ConfirmPendingAnyState(r) == r.active /\ r.awaitingConfirm

\* /confirm_route: "active && state == ROUTE_WAITING && awaitingConfirm"
ConfirmPending(r) == r.active /\ r.state = ROUTE_WAITING /\ r.awaitingConfirm

\* handleClient: GET /confirm_route
confirmRoute(w, delta) ==
    IF ConfirmPending(w.r) THEN
        IF w.r.waitingForReturnConfirm
        THEN beginNextWaypoint([w EXCEPT !.r.awaitingConfirm = FALSE,
                                         !.r.waitingForReturnConfirm = FALSE,
                                         !.r.returnModeActive = TRUE,
                                         !.r.direction = -1,
                                         !.r.currentPoint = 0,
                                         !.o.legSeq = << >>,
                                         !.o.legEnd = FALSE], delta)
        ELSE beginNextWaypoint([w EXCEPT !.r.awaitingConfirm = FALSE], delta)
    ELSE w

\* /confirm_route: the body of the reply
ConfirmReply(r) ==
    IF ConfirmPending(r)
    THEN (IF r.waitingForReturnConfirm THEN "CONFIRMED_RETURN" ELSE "CONFIRMED")
    ELSE "NO_SCHEDULE"

\* handleClient: GET /confirm_route; observe = the reply is observed
ConfirmRouteRequest(observe) ==
    /\ pc = "request"
    /\ \E d \in Deltas :
          LET why == IF routeExec.active /\ routeExec.state = ROUTE_WAITING
                        /\ routeExec.awaitingConfirm
                     THEN "none" ELSE "nothingPending"
              w1 == confirmRoute(Fresh(World), d)
              w2 == IF observe
                    THEN [w1 EXCEPT !.o.reply = ConfirmReply(routeExec),
                                    !.o.invalid = why]
                    ELSE w1
          IN Commit(Canon(Disturbed(w2)), "control")

HttpConfirmRoute == ConfirmRouteRequest(FALSE)

HttpConfirmRouteReply == ConfirmRouteRequest(TRUE)

\* handleClient: GET /wall_follow?side=left|right
HttpWallFollow ==
    /\ pc = "request"
    /\ \E side \in {1, -1} :
          Commit(Canon(Disturbed(startWallFollowing(Fresh(World), side))), "control")

\* handleClient: GET /stop_wall_follow
HttpStopWallFollow ==
    /\ pc = "request"
    /\ Commit(Canon(Disturbed(stopWallFollowing(Fresh(World)))), "control")

\* no request between two control steps
NoRequest ==
    /\ pc = "request"
    /\ Commit(Fresh(World), "control")

\* The route executor under an operator who uses the route requests.
Next ==
    \/ ControlStep
    \/ FastControlStep
    \/ HttpStartRoute
    \/ HttpStopRoute
    \/ HttpConfirmRoute
    \/ NoRequest

Spec == Init /\ [][Next]_vars

\* The two autonomous modes under an operator who switches between them.
ModeNext ==
    \/ WallControlStep
    \/ HttpWallFollow
    \/ HttpStopWallFollow
    \/ HttpStopRoute
    \/ HttpStartRoute
    \/ NoRequest

ModeSpec == Init /\ [][ModeNext]_vars

\* The route requests and their replies, on a clear floor.
ReplyNext ==
    \/ ClearControlStep
    \/ HttpStartRouteReply
    \/ HttpConfirmRouteReply
    \/ HttpStopRoute
    \/ NoRequest

ReplySpec == Init /\ [][ReplyNext]_vars

\* The route executor on a clear floor under an operator who also types
\* commands.
ManualNext ==
    \/ ClearControlStep
    \/ Command
    \/ HttpStartRoute
    \/ NoRequest

ManualSpec == Init /\ [][ManualNext]_vars

\* the robot's own state does not change in a step of the encoder
RobotUnchanged == UNCHANGED <<routeExec, wallFollow, turn, motors, pc, obs, drv, cal, odo>>

\* an edge of a B channel whose ISR runs at once, with its levels remembered
EdgeCounted(wheel) ==
    /\ enc.op = "none"
    /\ Len(IF wheel = "L" THEN enc.histL ELSE enc.histR) < MaxEdges
    /\ \E A \in BOOLEAN, B \in BOOLEAN : enc' = encoderISR(enc, wheel, A, B, TRUE)
    /\ RobotUnchanged

LeftEdgeCounted == EdgeCounted("L")
RightEdgeCounted == EdgeCounted("R")

\* a read or a reset of the loop, from the call to the return
EncoderOp ==
    /\ enc.op = "none"
    /\ \E op \in EncoderOps : enc' = encoderRun(encoderCall(enc, op))
    /\ RobotUnchanged

\* The encoder counters under any sequence of edges, reads and resets.
EdgeNext ==
    \/ LeftEdgeCounted
    \/ RightEdgeCounted
    \/ EncoderOp

EdgeSpec == Init /\ [][EdgeNext]_vars

\* an edge of a B channel: the hardware latches the interrupt
Edge(wheel) ==
    /\ Abs(IF wheel = "L" THEN enc.leftPulses ELSE enc.rightPulses) < MaxCount
    /\ enc' = IF wheel = "L"
               THEN [enc EXCEPT !.pendingL = TRUE, !.done = "none", !.ret = 0]
               ELSE [enc EXCEPT !.pendingR = TRUE, !.done = "none", !.ret = 0]
    /\ ~(IF wheel = "L" THEN enc.pendingL ELSE enc.pendingR)
    /\ RobotUnchanged

LeftEdge == Edge("L")
RightEdge == Edge("R")

\* the CPU serves a latched interrupt, between two instructions of the loop
ServeISR(wheel) ==
    /\ ~enc.masked
    /\ IF wheel = "L" THEN enc.pendingL ELSE enc.pendingR
    /\ \E A \in BOOLEAN, B \in BOOLEAN : enc' = encoderISR(enc, wheel, A, B, FALSE)
    /\ RobotUnchanged

LeftISR == ServeISR("L")
RightISR == ServeISR("R")

\* the loop calls a read or a reset
EncoderCall ==
    /\ enc.op = "none"
    /\ \E op \in EncoderOps : enc' = encoderCall(enc, op)
    /\ RobotUnchanged

\* the loop runs the next instruction of the read or reset it is inside of
EncoderStep ==
    /\ enc.op # "none"
    /\ enc' = encoderStep(enc)
    /\ RobotUnchanged

\* The reads and resets of the loop, instruction by instruction, against the
\* edge interrupts.
IrqNext ==
    \/ LeftEdge
    \/ RightEdge
    \/ LeftISR
    \/ RightISR
    \/ EncoderCall
    \/ EncoderStep

IrqSpec == Init /\ [][IrqNext]_vars

\* ------------------------------------------------------------------------
\* case 'V' of processCommand step by step: loop() is inside the command
\* until its wait loop breaks.
\* ------------------------------------------------------------------------
\* a command other than 'V'
InstantCommand ==
    /\ pc = "request"
    /\ \E cmd \in Commands \ {"V"} :
          Commit(Canon(Disturbed(processCommand(Fresh(World), cmd))), "control")

\* 'V' up to the wait loop: snapshots taken, both wheels forward
CalibrateBegin ==
    /\ pc = "request"
    /\ LET w0 == [Fresh(World) EXCEPT !.o.cmd = "V"]
           w1 == Canon(Disturbed([w0 EXCEPT !.o.quiet = FALSE,
                                            !.m = MotorsMoveForward(DEFAULT_SPEED)]))
       IN IF CommandRejected(turn.turningInProgress, "V")
          THEN Commit(Canon(Disturbed(w0)), "control")
          ELSE /\ routeExec' = w1.r /\ wallFollow' = w1.wf /\ turn' = w1.t
               /\ motors' = w1.m /\ obs' = w1.o
               /\ pc' = "calibrate"
               /\ cal' = CalibrationIdle
               /\ UNCHANGED <<enc, drv, odo>>

\* an encoder reports a pulse of its wheel while the command waits
CalibratePulse ==
    /\ pc = "calibrate"
    /\ \E wheel \in {"dl", "dr"} :
          /\ cal[wheel] < RevolutionPulses
          /\ cal' = [cal EXCEPT ![wheel] = @ + 1]
    /\ UNCHANGED <<routeExec, wallFollow, turn, motors, pc, obs, enc, drv, odo>>

\* one pass of "while (true)": break when the leading wheel reached the
\* target, then stop and return; delay(20) otherwise
CalibratePoll ==
    /\ pc = "calibrate"
    /\ IF Max2(cal.dl, cal.dr) >= RevolutionPulses
       THEN /\ LET w == calibrate(World)
               IN /\ routeExec' = Canon(w).r /\ wallFollow' = Canon(w).wf
                  /\ turn' = Canon(w).t /\ motors' = Canon(w).m /\ obs' = Canon(w).o
            /\ pc' = "control"
            /\ cal' = CalibrationIdle
            /\ UNCHANGED <<enc, drv, odo>>
       ELSE /\ cal' = [cal EXCEPT !.waited = Min2(@ + 20, MaxWait)]
            /\ UNCHANGED <<routeExec, wallFollow, turn, motors, pc, obs, enc, drv, odo>>

CalibrationNext ==
    \/ ClearControlStep
    \/ InstantCommand
    \/ HttpStartRoute
    \/ NoRequest
    \/ CalibrateBegin
    \/ CalibratePulse
    \/ CalibratePoll

CalibrationSpec == Init /\ [][CalibrationNext]_vars

\* the sketch keeps running: a pass of the wait loop that can change anything
\* is taken; nothing makes an encoder report a pulse
CalibrationFairSpec == CalibrationSpec /\ WF_vars(CalibratePoll)

\* ------------------------------------------------------------------------
\* The odometry with encoder edges between its accesses of the counters.
\* Every read and reset of the encoder masks the interrupts, so it is one step.
\* ------------------------------------------------------------------------
StartThetas == {0, Pi \div 2}

OdometryFrame == UNCHANGED <<routeExec, wallFollow, turn, motors, pc, obs, drv, cal>>

readCounter(op) == encoderRun(encoderCall(enc, op))

\* an edge of a B channel, served by its ISR
OdometryEdge ==
    /\ odo.edges < MaxTravel
    /\ \E wheel \in Wheels, A \in BOOLEAN, B \in BOOLEAN :
          enc' = encoderISR(enc, wheel, A, B, FALSE)
    /\ odo' = [odo EXCEPT !.edges = @ + 1, !.raced = @ \/ odo.at = "resetPosition"]
    /\ OdometryFrame

\* update(): currentLeftPulses = encoder->readLeft()
UpdateReadLeft ==
    /\ odo.at = "idle"
    /\ enc' = readCounter("readLeft")
    /\ odo' = [odo EXCEPT !.at = "update", !.currentLeftPulses = enc'.ret, !.spun = FALSE]
    /\ OdometryFrame

\* update(): currentRightPulses = encoder->readRight() and the rest
UpdateIntegrate ==
    /\ odo.at = "update"
    /\ enc' = readCounter("readRight")
    /\ odo' = [integrate(odo, odo.currentLeftPulses, enc'.ret) EXCEPT
                  !.at = "idle", !.currentLeftPulses = 0]
    /\ OdometryFrame

\* init(): the pose and lastLeftPulses = encoder->readLeft()
InitReadLeft ==
    /\ odo.at = "idle"
    /\ enc' = readCounter("readLeft")
    /\ \E startTheta \in StartThetas :
          odo' = [odo EXCEPT !.at = "init", !.x = 0, !.y = 0, !.theta = startTheta,
                             !.lastLeftPulses = enc'.ret,
                             !.sumL = 0, !.sumR = 0, !.baseL = enc'.ret, !.raced = FALSE,
                             !.spun = FALSE]
    /\ OdometryFrame

\* init(): lastRightPulses = encoder->readRight()
InitReadRight ==
    /\ odo.at = "init"
    /\ enc' = readCounter("readRight")
    /\ odo' = [odo EXCEPT !.at = "idle", !.lastRightPulses = enc'.ret, !.baseR = enc'.ret]
    /\ OdometryFrame

\* resetPosition(): the pose and encoder->resetBoth()
ResetCounters ==
    /\ odo.at = "idle"
    /\ enc' = readCounter("resetBoth")
    /\ odo' = [odo EXCEPT !.at = "resetPosition", !.x = 0, !.y = 0, !.theta = 0,
                          !.sumL = 0, !.sumR = 0, !.baseL = 0, !.baseR = 0,
                          !.raced = FALSE, !.spun = FALSE]
    /\ OdometryFrame

\* resetPosition(): lastLeftPulses = 0; lastRightPulses = 0
ResetSnapshots ==
    /\ odo.at = "resetPosition"
    /\ odo' = [zeroSnapshots(odo) EXCEPT !.at = "idle"]
    /\ enc' = enc
    /\ OdometryFrame

OdometryNext ==
    \/ OdometryEdge
    \/ UpdateReadLeft
    \/ UpdateIntegrate
    \/ InitReadLeft
    \/ InitReadRight
    \/ ResetCounters
    \/ ResetSnapshots

OdometrySpec == Init /\ [][OdometryNext]_vars

\* ------------------------------------------------------------------------
\* The driver under any sequence of calls.
\* ------------------------------------------------------------------------
Speeds == {-300, -50, 0, 50, 80, 300}
Targets == {0, 200}
RampTimes == {0, 4000}
Gains == {<<80, 20, 2>>, <<4000, 0, 0>>}
PulseDeltas == {0, 400}
Elapsed == {20, 2000}

\* a call of the driver: only the driver and the PWM channels change
DriverCall(d, m) ==
    /\ drv' = d
    /\ motors' = m
    /\ UNCHANGED <<routeExec, wallFollow, turn, pc, obs, enc, cal, odo>>

MoveForward == \E speed \in Speeds : DriverCall(Called(drv, "moveForward"), MotorsMoveForward(speed))

MoveBackward == \E speed \in Speeds : DriverCall(Called(drv, "moveBackward"), MotorsMoveBackward(speed))

TurnLeft == \E speed \in Speeds : DriverCall(Called(drv, "turnLeft"), MotorsTurnLeft(speed))

TurnRight == \E speed \in Speeds : DriverCall(Called(drv, "turnRight"), MotorsTurnRight(speed))

Stop == DriverCall(Called(drv, "stop"), MotorsStop)

SetLeft ==
    \E speed \in Speeds :
        LET l == SetLeftMotor(speed)
        IN DriverCall(Called(drv, "setLeftMotor"),
                      [motors EXCEPT !.leftRPWM = l[1], !.leftLPWM = l[2]])

SetRight ==
    \E speed \in Speeds :
        LET r == SetRightMotor(speed)
        IN DriverCall(Called(drv, "setRightMotor"),
                      [motors EXCEPT !.rightRPWM = r[1], !.rightLPWM = r[2]])

SetBoth ==
    \E leftSpeed \in {-300, 0, 80}, rightSpeed \in {-300, 0, 80} :
        DriverCall(Called(drv, "setBothMotors"), MotorsSetBoth(leftSpeed, rightSpeed))

EnableVelocityControl == \E en \in BOOLEAN : DriverCall(enableVelocityControl(drv, en), motors)

SetTarget == \E pps \in Targets : DriverCall(setTargetPulsesPerSecond(drv, pps), motors)

SetGains == \E g \in Gains : DriverCall(setPIDGains(drv, g), motors)

SetRamp == \E ms \in RampTimes : DriverCall(setRampTime(drv, ms), motors)

\* the two wheels turn together
UpdateVelocity ==
    \E delta \in PulseDeltas, dtMs \in {0, pidIntervalMs}, elapsed \in Elapsed :
        LET u == updateVelocityControl(drv, motors, delta, delta, dtMs, elapsed)
        IN DriverCall(u[1], u[2])

DriverNext ==
    \/ MoveForward
    \/ MoveBackward
    \/ TurnLeft
    \/ TurnRight
    \/ Stop
    \/ SetLeft
    \/ SetRight
    \/ SetBoth
    \/ EnableVelocityControl
    \/ SetTarget
    \/ SetGains
    \/ SetRamp
    \/ UpdateVelocity

DriverSpec == Init /\ [][DriverNext]_vars

\* ------------------------------------------------------------------------
\* Properties
\* ------------------------------------------------------------------------
\* a tick boundary: the control step of the iteration has run
TickBoundary == pc = "request"

\* C1: at a tick boundary the route executor and the wall follower are never
\* both active.
C1_MutualExclusion == TickBoundary => ~(routeExec.active /\ wallFollow.active)

\* C2: once a route has been stopped, both wheels stay at zero duty until a
\* new start or a manual request arrives.
C2_StoppedStaysStopped == obs.quiet => WheelsStopped(motors)

\* C3: the obstacle branch of handleAutoTurn issues no motion command over a
\* turn in progress (nor does any other component of the control step).
C3_TurnOwnsWheels == TickBoundary => obs.foreign # "handleAutoTurn"

\* C4: a control step that finds a turn in progress past MAX_TURN_TIME ends
\* it (the timeout stops a turn whose wheels never reach the pulse target).
C4_TimeoutEndsTurn ==
    [][(pc = "control" /\ turn.turningInProgress /\ TurnTimedOut(turn.elapsed))
          => ~turn.turningInProgress']_vars

\* C5: when a turn requested by the route executor times out, the route is
\* stopped: inactive, wheels at zero duty.
C5_TimeoutStopsRoute ==
    (obs.turnEnd = "TimedOut" /\ obs.turnEndOwner = "route")
        => (~routeExec.active /\ WheelsStopped(motors))

\* C6: with the forward leg finished and its 180 degree turn completed, the
\* executor stays in ROUTE_WAITING, not turning and not moving, until the
\* return is confirmed or the route is stopped.
C6_WaitsForConfirm ==
    (obs.clean /\ routeExec.waitingForReturnConfirm)
        => (routeExec.state = ROUTE_WAITING /\ ~turn.turningInProgress
            /\ WheelsStopped(motors))

\* the clean run of route 0 in forward direction
Scenario == obs.clean /\ routeExec.routeIndex = 0 /\ routeExec.direction = 1

\* C7 (as the code behaves): in the clean run of route 0 started forward with
\* no delay the executor targets (30,0), then (30,30), then makes the 180
\* degree turn, and when that turn completes it sets the wait for the return
\* confirmation: the route stays active and never reaches ROUTE_DONE.
C7_ForwardRun ==
    Scenario =>
        /\ routeExec.active /\ routeExec.state # ROUTE_DONE
        /\ obs.legSeq \in {<<1>>, <<1, 2>>}
        /\ obs.legSeq = <<1>> => (routeExec.targetX = 30 /\ routeExec.targetY = 0)
        /\ obs.legSeq = <<1, 2>> => (routeExec.targetX = 30 /\ routeExec.targetY = 30)
        /\ (routeExec.postFinishTurn \/ routeExec.waitingForReturnConfirm)
              => (obs.legEnd /\ obs.legSeq = <<1, 2>>)
        /\ routeExec.postFinishTurn
              => (turn.turningInProgress /\ turn.turnTargetPulses = TurnPulsesFor(180))
        /\ obs.finishTurn
              => (routeExec.waitingForReturnConfirm /\ routeExec.awaitingConfirm)

\* the clean forward run of route 0 has completed its 180 degree turn
C7_Witness ==
    /\ Scenario /\ obs.finishTurn /\ routeExec.waitingForReturnConfirm
    /\ obs.legSeq = <<1, 2>>

\* C7 as stated: the clean forward run of route 0 is ROUTE_DONE once its 180
\* degree turn has completed.
C7_EndsDone == (Scenario /\ obs.finishTurn) => routeExec.state = ROUTE_DONE

\* C8: when the final 180 degree turn of a leg run in return direction
\* completes, the route is ROUTE_DONE and inactive.
C8_ReturnEndsDone ==
    (obs.clean /\ obs.finishTurn /\ routeExec.direction = -1)
        => (routeExec.state = ROUTE_DONE /\ ~routeExec.active)

\* the indices a leg over count waypoints has to select, in order
LegIndices(direction, count) ==
    [i \in 1..(count - 1) |-> IF direction = 1 THEN i ELSE count - 1 - i]

IsPrefix(s, t) == Len(s) <= Len(t) /\ \A i \in 1..Len(s) : s[i] = t[i]

\* C9: the indices selected by beginNextWaypoint within one leg are 1..N-1 in
\* forward direction and N-2..0 in return direction, in that order, each
\* once, and the leg ends only when all of them have been selected.
C9_IndexSequence ==
    LET want == LegIndices(routeExec.direction, routesCounts[routeExec.routeIndex])
    IN /\ IsPrefix(obs.legSeq, want)
       /\ obs.legEnd => obs.legSeq = want

\* C10: every index beginNextWaypoint computes lies inside the route table,
\* so no waypoint is read outside it.
C10_IndexInTable == ~obs.oob /\ ~obs.badIndex

\* a forward leg has selected the last row of the table of route 1
C10_Witness ==
    /\ routeExec.routeIndex = 1 /\ routeExec.direction = 1
    /\ obs.legSeq = <<1, 2, 3>>
    /\ routeExec.targetX = 0 /\ routeExec.targetY = 0

\* C11: an invalid request (start of an unknown route, start while a route is
\* active, confirm with nothing pending) is answered with a rejection and
\* leaves the route state, the wall follower, the turn state and the wheel
\* duties as they were.
C11_RejectedUnchanged ==
    [][(obs'.invalid # "none")
          => /\ obs'.reply \in {"BUSY", "NO_SCHEDULE"}
             /\ routeExec' = routeExec /\ wallFollow' = wallFollow
             /\ turn' = turn /\ motors' = motors]_vars

\* a start request was rejected while a route was turning toward a waypoint
C11_Witness ==
    /\ obs.invalid = "routeActive" /\ obs.reply = "BUSY"
    /\ routeExec.active /\ routeExec.state = ROUTE_TURNING
    /\ turn.turningInProgress /\ ~WheelsStopped(motors)

\* the waypoint selected first in the current leg has been selected again
FirstBegunAgain ==
    \E i \in 2..Len(obs.legSeq) : obs.legSeq[i] = obs.legSeq[1]

\* C12: a route started with a delay waits in ROUTE_WAITING, with no waypoint
\* begun and no turn or motion commanded, until the delay expires or the
\* start is confirmed; the first waypoint is then begun, once; a route
\* started with no delay has its first waypoint begun by the start call.
C12_DelayedStart ==
    /\ (routeExec.active /\ routeExec.state = ROUTE_WAITING
           /\ routeExec.elapsed < routeExec.delayMs)
          => (obs.legSeq = << >> /\ ~obs.drove)
    /\ (TickBoundary /\ routeExec.active /\ routeExec.state = ROUTE_WAITING
           /\ obs.legSeq = << >>)
          => routeExec.elapsed < routeExec.delayMs
    /\ obs.delayed => ~FirstBegunAgain
    /\ (obs.reply = "OK" /\ ~obs.delayed)
          => (Len(obs.legSeq) = 1 /\ routeExec.state = ROUTE_TURNING)

\* C13: the debounce starts on a front reading at or below the threshold;
\* avoidance begins only from a running debounce, on a re-sample taken at
\* least OBSTACLE_DETECTION_DELAY_MS later that is still at or below the
\* threshold; a re-sample above it clears the debounce and leaves the route
\* in ROUTE_MOVING with no avoidance.
C13_Debounce ==
    [][/\ (~routeExec.obstacleWaitActive /\ routeExec'.obstacleWaitActive)
             => (obs'.front > 0 /\ obs'.front <= OBSTACLE_THRESHOLD_CM)
       /\ (~routeExec.obstacleActive /\ routeExec'.obstacleActive)
             => /\ routeExec.obstacleWaitActive
                /\ obs'.waited >= OBSTACLE_DETECTION_DELAY_MS
                /\ obs'.front > 0 /\ obs'.front <= OBSTACLE_THRESHOLD_CM
       /\ (obs'.waited >= OBSTACLE_DETECTION_DELAY_MS
              /\ obs'.front > OBSTACLE_THRESHOLD_CM)
             => /\ ~routeExec'.obstacleActive /\ ~routeExec'.obstacleWaitActive
                /\ routeExec'.state = ROUTE_MOVING]_vars

\* an obstacle has just been confirmed by the re-sample
C13_Witness ==
    /\ obs.waited >= OBSTACLE_DETECTION_DELAY_MS
    /\ obs.front > 0 /\ obs.front <= OBSTACLE_THRESHOLD_CM
    /\ routeExec.obstacleActive /\ routeExec.obstacleState = 1
    /\ ~routeExec.obstacleWaitActive

\* a re-sample above the threshold has just cleared the debounce
C13_FalseAlarm ==
    /\ obs.waited >= OBSTACLE_DETECTION_DELAY_MS
    /\ obs.front > OBSTACLE_THRESHOLD_CM
    /\ ~routeExec.obstacleActive /\ routeExec.state = ROUTE_MOVING

\* an obstacle was confirmed in the last step
Confirmed == obs.lateral # <<0, 0>>

\* C14: on a confirmed obstacle the side is +1 when dL > dR and -1 when
\* dL < dR, and the probe is the lateral sensor of the other side.
C14_SideFromLaterals ==
    Confirmed =>
        LET dL == obs.lateral[1]
            dR == obs.lateral[2]
        IN /\ dL > dR => routeExec.obstacleSide = 1
           /\ dL < dR => routeExec.obstacleSide = -1
           /\ routeExec.obstacleSide = 1 => routeExec.obstacleProbePin = IR_RIGHT_SIDE_PIN
           /\ routeExec.obstacleSide = -1 => routeExec.obstacleProbePin = IR_LEFT_SIDE_PIN
           /\ routeExec.obstacleSide \in {1, -1}

\* dL = 40, dR = 20 has chosen the left side
C14_Witness ==
    /\ obs.lateral = <<ClearDist, 20>>
    /\ routeExec.obstacleSide = 1 /\ routeExec.obstacleProbePin = IR_RIGHT_SIDE_PIN

\* C15: the turn commanded on a confirmed obstacle rotates toward the chosen
\* side: left wheel backward and right wheel forward for +1 (left), left
\* wheel forward and right wheel backward for -1 (right).
C15_TurnsTowardSide ==
    Confirmed =>
        /\ routeExec.obstacleSide = 1 => (LeftDuty(motors) < 0 /\ RightDuty(motors) > 0)
        /\ routeExec.obstacleSide = -1 => (LeftDuty(motors) > 0 /\ RightDuty(motors) < 0)

\* C16: the obstacle phase goes from 1 to 2, and from 3 to 4, only in a step
\* in which the turn reached its pulse target and ended as completed.
C16_AdvanceOnCompletion ==
    [][(\/ (routeExec.obstacleState = 1 /\ routeExec'.obstacleState = 2)
        \/ (routeExec.obstacleState = 3 /\ routeExec'.obstacleState = 4))
          => (obs'.reached /\ obs'.turnEnd = "Completed")]_vars

\* C17: a step that tests the end of obstacle phase 2 leaves the phase exactly
\* when the probe reads at least threshold + margin or the pulses travelled
\* have reached the safety cap, and then a turn of the sign opposite to the
\* phase 1 turn is in progress in phase 3.
C17_ForwardStepExit ==
    obs.checked = 2 =>
        IF \/ obs.probe >= OBSTACLE_THRESHOLD_CM + AVOID_CLEAR_MARGIN_CM
           \/ obs.travelled >= routeExec.obstacleMoveMaxPulses
        THEN /\ routeExec.obstacleState = 3
             /\ turn.turningInProgress /\ obs.owner = "obstacle"
             /\ turn.turnTargetPulses = TurnPulsesFor(90)
             /\ Sign(LeftDuty(motors)) = -routeExec.obstacleSide
             /\ Sign(RightDuty(motors)) = routeExec.obstacleSide
        ELSE routeExec.obstacleState = 2

\* the forward step has ended on the safety cap with the probe still blocked
C17_CapReached ==
    /\ obs.checked = 2 /\ routeExec.obstacleState = 3
    /\ obs.probe < OBSTACLE_THRESHOLD_CM + AVOID_CLEAR_MARGIN_CM
    /\ obs.travelled >= routeExec.obstacleMoveMaxPulses

\* the forward step has ended on a clear probe
C17_Witness ==
    /\ obs.checked = 2 /\ routeExec.obstacleState = 3
    /\ obs.probe >= OBSTACLE_THRESHOLD_CM + AVOID_CLEAR_MARGIN_CM
    /\ obs.travelled < routeExec.obstacleMoveMaxPulses

\* C18: a step that tests the end of obstacle phase 4 with the pulse target
\* reached sets phase 5 and clears obstacleActive; when the remaining
\* distance is zero pulses it advances currentPoint and begins the next
\* waypoint, otherwise it keeps the target and moves on toward it in
\* ROUTE_MOVING from a fresh snapshot; with the target not reached the phase
\* stays 4.
C18_CrossStepExit ==
    [][(obs'.checked = 4)
          => IF obs'.travelled >= routeExec.obstacleMoveTargetPulses
             THEN /\ routeExec'.obstacleState = 5 /\ ~routeExec'.obstacleActive
                  /\ IF PulsesForCm(obs'.remaining) <= 0
                     THEN /\ routeExec'.currentPoint =
                                Min2(routeExec.currentPoint + 1,
                                     routesCounts[routeExec.routeIndex])
                          /\ routeExec'.state = ROUTE_TURNING
                          /\ turn'.turningInProgress /\ obs'.owner = "route"
                     ELSE /\ routeExec'.state = ROUTE_MOVING
                          /\ routeExec'.currentPoint = routeExec.currentPoint
                          /\ routeExec'.targetX = routeExec.targetX
                          /\ routeExec'.targetY = routeExec.targetY
                          /\ routeExec'.moveDl = 0 /\ routeExec'.moveDr = 0
                          /\ routeExec'.moveTargetPulses = PulsesForCm(obs'.remaining)
                          /\ motors' = MotorsMoveForward(DEFAULT_SPEED)
             ELSE routeExec'.obstacleState = 4 /\ routeExec'.obstacleActive]_vars

\* the crossing step has ended short of the target and the route moves on
C18_Witness ==
    /\ obs.checked = 4 /\ obs.remaining > 0
    /\ routeExec.obstacleState = 5 /\ ~routeExec.obstacleActive
    /\ routeExec.state = ROUTE_MOVING /\ routeExec.moveTargetPulses > 0

\* the crossing step has ended on the target and the next waypoint is begun
C18_AtTarget ==
    /\ obs.checked = 4 /\ obs.travelled > 0 /\ obs.remaining = 0
    /\ routeExec.obstacleState = 5 /\ routeExec.state = ROUTE_TURNING

\* C19: a step in which the turn in progress has its pulse target ends the
\* turn as completed, never as timed out, whatever the time elapsed.
C19_ReachedCompletes == obs.reached => obs.turnEnd = "Completed"

\* a turn reached its pulse target past MAX_TURN_TIME and ended as completed
C19_Witness == obs.reached /\ obs.late /\ obs.turnEnd = "Completed"

\* C20: after the stop of an active route the whole route state is idle: not
\* active, ROUTE_IDLE, no avoidance and phase 0, no debounce pending, no
\* post-finish turn flag and no confirmation flag.
C20_StopResets ==
    obs.quiet =>
        /\ ~routeExec.active /\ routeExec.state = ROUTE_IDLE
        /\ ~routeExec.obstacleActive /\ routeExec.obstacleState = 0
        /\ ~routeExec.obstacleWaitActive
        /\ ~routeExec.postFinishTurn
        /\ ~routeExec.awaitingConfirm /\ ~routeExec.waitingForReturnConfirm

\* C21: an operator stop 'X' given while a route or the wall follower is
\* active is honoured within one tick: at the end of the tick that follows the
\* command the wheels are at zero duty and neither behaviour is active, so
\* that no later tick resumes motion.
C21_StopHonored ==
    [][(pc = "control" /\ obs.stopCmd)
         => (WheelsStopped(motors') /\ ~routeExec'.active /\ ~wallFollow'.active)]_vars

\* C22: while a turn is in progress, a command other than 'X' handed to
\* processCommand changes neither the wheel duties, nor the turn state, nor
\* the pose.
C22_RejectedDuringTurn ==
    [][(pc = "request" /\ turn.turningInProgress /\ obs'.cmd \notin {"none", "X", "x"})
         => (motors' = motors /\ turn' = turn /\ ~obs'.poseReset)]_vars

\* a reset was typed during a turn, and the turn goes on
C22_Witness ==
    /\ pc = "control"
    /\ obs.cmd = "R"
    /\ turn.turningInProgress
    /\ ~WheelsStopped(motors)

\* C23: startWallFollowing called while a route is active first stops the
\* route (inactive, ROUTE_IDLE, wheels at zero duty) and only then marks the
\* wall follower active, in state Following, with the requested side, the
\* all-walls timer cleared and no resume action pending.
C23_WallStartStopsRoute ==
    obs.wallStart \notin {"none", "idle"} =>
        /\ obs.wallStart = "routeStopped"
        /\ ~routeExec.active
        /\ routeExec.state = ROUTE_IDLE
        /\ WheelsStopped(motors)
        /\ wallFollow.active
        /\ wallFollow.state = 1
        /\ wallFollow.side = obs.wallSide
        /\ wallFollow.allWallsZero
        /\ ~wallFollow.routeResumePending
        /\ wallFollow.resumeAction = 0

\* wall following was requested on the right while a route was driving
C23_Witness ==
    /\ obs.wallStart = "routeStopped"
    /\ obs.wallSide = -1
    /\ wallFollow.active

\* C24: a tick of the wall follower in state Stopped that samples the four
\* sensors wall-detected ends wall following (inactive, wheels stopped) once
\* ALL_WALLS_TIMEOUT_MS have passed since the episode began, and keeps
\* waiting with its timer running before that; a tick that samples a sensor
\* clear returns to Following with the timer reset; and every entry into
\* Stopped starts the timer anew.
C24_StoppedTimeout ==
    [][/\ (obs'.walls = "all" /\ obs'.wallsFor >= ALL_WALLS_TIMEOUT_MS)
            => (~wallFollow'.active /\ WheelsStopped(motors'))
       /\ (obs'.walls = "all" /\ obs'.wallsFor < ALL_WALLS_TIMEOUT_MS)
            => /\ wallFollow'.active /\ wallFollow'.state = 3
               /\ ~wallFollow'.allWallsZero
               /\ wallFollow'.allWallsElapsed = obs'.wallsFor
               /\ obs'.wallsFor = wallFollow.allWallsElapsed + TimeStep
       /\ obs'.walls = "some"
            => /\ wallFollow'.active /\ wallFollow'.state = 1
               /\ wallFollow'.allWallsZero
       /\ (wallFollow.state # 3 /\ wallFollow'.state = 3)
            => (~wallFollow'.allWallsZero /\ wallFollow'.allWallsElapsed = 0)]_vars

\* the four sensors stayed wall-detected until the timeout ended wall following
C24_Witness ==
    /\ obs.walls = "all"
    /\ obs.wallsFor >= ALL_WALLS_TIMEOUT_MS
    /\ ~wallFollow.active

\* a sensor cleared after the wait had begun
C24_Cleared ==
    /\ obs.walls = "some"
    /\ wallFollow.state = 1
    /\ wallFollow.allWallsZero

\* C25: a tick of the Following state that executes a latched resume-forward
\* action stops wall following at once: at the end of that tick the wall
\* follower is inactive and has left the wheels at zero duty.
C25_ResumeForwardStops ==
    obs.resume = 2 => (~wallFollow.active /\ WheelsStopped(motors))

\* C26: a tick of the Following state that latches the resume-via-turn action
\* (only the opposite side is clear, a frontal sensor still detects a wall)
\* executes it as a single turn request toward the followed side, which no
\* other turn request replaces in the same tick.
C26_ResumeTurnOnce ==
    obs.resume = 1 =>
        /\ Len(obs.wallTurns) = 1
        /\ turn.turningInProgress
        /\ wallFollow.side = 1 => (LeftDuty(motors) < 0 /\ RightDuty(motors) > 0)
        /\ wallFollow.side = -1 => (LeftDuty(motors) > 0 /\ RightDuty(motors) < 0)

\* C27: a tick of the Following state that meets a frontal wall with no resume
\* action pending goes to Turning with a turn that rotates the robot away
\* from the followed side: following the left wall, left wheel forward and
\* right wheel backward; following the right wall, the mirror image.
C27_FrontTurnAway ==
    obs.frontTurn =>
        /\ wallFollow.active /\ wallFollow.state = 2
        /\ turn.turningInProgress
        /\ wallFollow.side = 1 => (LeftDuty(motors) > 0 /\ RightDuty(motors) < 0)
        /\ wallFollow.side = -1 => (LeftDuty(motors) < 0 /\ RightDuty(motors) > 0)

\* C28: a tick of the Following state on which neither frontal sensor detects
\* a wall and the followed wall is inside the middle band leaves the wall
\* follower active, in Following, with both wheels commanded at base duty.
C28_BandKeepsFollowing ==
    obs.inBand =>
        /\ wallFollow.active /\ wallFollow.state = 1
        /\ motors = MotorsSetBoth(WALL_FOLLOW_SPEED, WALL_FOLLOW_SPEED)

\* the sum of the per-edge deltas: -1 for an edge sampled with A = B, +1
\* otherwise, each negated when the wheel is inverted
RECURSIVE EdgeSum(_, _)
EdgeSum(hist, inverted) ==
    IF hist = << >> THEN 0
    ELSE LET A == Head(hist)[1]
             B == Head(hist)[2]
             d == IF A = B THEN -1 ELSE 1
         IN (IF inverted THEN -d ELSE d) + EdgeSum(Tail(hist), inverted)

\* the count the ISR arithmetic gives for the same edges under a given flag
RECURSIVE Replay(_, _)
Replay(hist, inverted) ==
    IF hist = << >> THEN 0
    ELSE Replay(SubSeq(hist, 1, Len(hist) - 1), inverted)
         + isrDelta(hist[Len(hist)][1], hist[Len(hist)][2], inverted)

\* C29: for every sequence of edges on a wheel since its last reset, the
\* counter, and the value a read returns, is the sum of the per-edge deltas
\* (-1 when A = B, +1 otherwise, negated when the wheel is inverted); the same
\* edges counted under the flipped flag give the negated total; and every
\* edge changes the count by exactly 1 in magnitude.
C29_CountIsEdgeSum ==
    /\ [](/\ enc.leftPulses = EdgeSum(enc.histL, enc.leftInverted)
          /\ enc.rightPulses = EdgeSum(enc.histR, enc.rightInverted)
          /\ Replay(enc.histL, ~enc.leftInverted) = -enc.leftPulses
          /\ Replay(enc.histR, ~enc.rightInverted) = -enc.rightPulses
          /\ (enc.done = "readLeft" => enc.ret = EdgeSum(enc.histL, enc.leftInverted))
          /\ (enc.done = "readRight" => enc.ret = EdgeSum(enc.histR, enc.rightInverted)))
    /\ [][(Len(enc'.histL) > Len(enc.histL) => Abs(enc'.leftPulses - enc.leftPulses) = 1)
           /\ (Len(enc'.histR) > Len(enc.histR) => Abs(enc'.rightPulses - enc.rightPulses) = 1)]_vars

\* a read of the inverted wheel after edges in both directions
C29_Witness ==
    /\ enc.done = "readRight"
    /\ Len(enc.histR) = MaxEdges
    /\ enc.ret = 1
    /\ \E i \in 1..Len(enc.histR) : enc.histR[i][1] = enc.histR[i][2]
    /\ \E i \in 1..Len(enc.histR) : enc.histR[i][1] # enc.histR[i][2]

\* C30: with the edge interrupts served at any point of the loop, a read
\* returns a value the counter held at some instant of the call, and a reset
\* zeroes its counter or counters at one instant: after it the counters hold
\* exactly the edges counted since that instant.
C30_AtomicReadReset ==
    /\ enc.retHeld
    /\ enc.op = "none" => (enc.leftPulses = enc.sinceL /\ enc.rightPulses = enc.sinceR)

\* a read returned while an edge that arrived during the call was waiting
C30_Witness ==
    /\ enc.done = "readLeft"
    /\ enc.ret = Radix - 1
    /\ enc.pendingL

\* a reset of both counters returned with edges of both wheels waiting
C30_ResetWitness ==
    /\ enc.done = "resetBoth"
    /\ enc.pendingL /\ enc.pendingR
    /\ enc.leftPulses = 0 /\ enc.rightPulses = 0

\* C37: a route started after a previous route has run to ROUTE_DONE behaves
\* like a first run: when the 180 degree turn that ends its forward leg
\* completes, it waits for the confirmation of the return instead of being
\* marked done.
C37_FreshAfterDone ==
    (obs.afterDone /\ obs.finishTurn /\ obs.turnEnd = "Completed" /\ routeExec.direction = 1)
        => /\ routeExec.active
           /\ routeExec.state = ROUTE_WAITING
           /\ routeExec.waitingForReturnConfirm

\* C39: on a route leg during which obstacle avoidance never starts, the
\* pulses travelled since the leg's start snapshot exceed moveTargetPulses by
\* no more than the pulses of one control step: at a tick boundary of such a
\* leg the target has not been passed yet, so that the step which finds it
\* reached has added at most its own pulses.
C39_LegOvershoot ==
    (/\ TickBoundary
     /\ routeExec.active /\ routeExec.state = ROUTE_MOVING
     /\ ~routeExec.obstacleActive /\ routeExec.obstacleState = 0)
        => Max2(Abs(routeExec.moveDl), Abs(routeExec.moveDr)) <= routeExec.moveTargetPulses

\* C40: awaitingConfirm is true only while the route is in the Waiting
\* state: it is false in the Turning, Moving and Done states.
C40_AwaitingOnlyWaiting ==
    routeExec.state \in {ROUTE_TURNING, ROUTE_MOVING, ROUTE_DONE} => ~routeExec.awaitingConfirm


\* the velocity loop as the constructor or a disable leaves it, with no target
ResetState(d) ==
    /\ d.targetPpsLeft = 0 /\ d.targetPpsRight = 0
    /\ d.appliedPpsLeft = 0 /\ d.appliedPpsRight = 0
    /\ d.integralL = 0 /\ d.integralR = 0
    /\ d.prevErrorL = 0 /\ d.prevErrorR = 0

\* C32: after every call of the driver each PID integral lies within
\* [-integralClamp, +integralClamp]; and an update that runs from the reset
\* state with a target of 0 and zero measured deltas commands zero duty on both
\* wheels and leaves the integrals at 0 (and the loop in the reset state).
C32_IntegralClamped ==
    /\ [](/\ Abs(drv.integralL) <= integralClamp * 1000
          /\ Abs(drv.integralR) <= integralClamp * 1000)
    /\ [][(/\ ResetState(drv)
           /\ drv'.call = "updateVelocityControl" /\ drv'.ran /\ drv'.still)
              => (/\ motors' = MotorsStop
                  /\ ResetState(drv'))]_vars

C32_Witness ==
    /\ drv.call = "updateVelocityControl" /\ drv.ran
    /\ drv.integralL = integralClamp * 1000
    /\ drv.integralR = integralClamp * 1000

\* C33: moveForward and moveBackward drive each wheel with a duty inside
\* [MIN_SPEED, MAX_SPEED] in the requested direction, whatever speed was asked
\* for, and stop() sets the four PWM channels to 0.
C33_MoveDutyInRange ==
    /\ drv.call = "moveForward"
          => /\ motors.leftRPWM = 0 /\ motors.rightRPWM = 0
             /\ motors.leftLPWM \in MIN_SPEED..MAX_SPEED
             /\ motors.rightLPWM \in MIN_SPEED..MAX_SPEED
    /\ drv.call = "moveBackward"
          => /\ motors.leftLPWM = 0 /\ motors.rightLPWM = 0
             /\ motors.leftRPWM \in MIN_SPEED..MAX_SPEED
             /\ motors.rightRPWM \in MIN_SPEED..MAX_SPEED
    /\ drv.call = "stop" => motors = MotorsStop

\* C35: after any sequence of calls of the driver no wheel has both of its
\* direction channels non-zero and no channel is outside [0, MAX_SPEED].
C35_ChannelsSafe ==
    /\ \A ch \in DOMAIN motors : motors[ch] \in 0..MAX_SPEED
    /\ motors.leftRPWM = 0 \/ motors.leftLPWM = 0
    /\ motors.rightRPWM = 0 \/ motors.rightLPWM = 0

C35_Witness ==
    /\ drv.call = "updateVelocityControl" /\ drv.ran
    /\ motors.leftRPWM = MAX_SPEED /\ motors.rightRPWM > 0

\* an update moved the applied setpoint toward the target, and not past it
Approached(applied, target, after) ==
    /\ Abs(after - target) < Abs(applied - target)
    /\ (applied < target => after <= target)
    /\ (applied > target => after >= target)

\* C38: with a ramp time above 0, every update of the velocity loop that runs
\* moves the applied setpoint of each wheel that is not at its target toward
\* the target and never past it, for every target, a target of 0 included.
C38_RampApproaches ==
    [][(drv'.call = "updateVelocityControl" /\ drv'.ran /\ drv.rampTimeMs > 0)
          => (/\ (drv.appliedPpsLeft # drv.targetPpsLeft)
                    => Approached(drv.appliedPpsLeft, drv.targetPpsLeft, drv'.appliedPpsLeft)
              /\ (drv.appliedPpsRight # drv.targetPpsRight)
                    => Approached(drv.appliedPpsRight, drv.targetPpsRight, drv'.appliedPpsRight))]_vars


\* C34: no command of processCommand waits indefinitely: the calibration
\* command 'V' returns to loop() even if the encoders never report a pulse.
C34_CalibrationReturns == (pc = "calibrate") ~> (pc # "calibrate")


\* the update that completes in this step integrates equal and opposite,
\* non-zero pulse deltas
SpinUpdate ==
    /\ odo.at = "update" /\ odo'.at = "idle"
    /\ odo'.lastLeftPulses - odo.lastLeftPulses = -(odo'.lastRightPulses - odo.lastRightPulses)
    /\ odo'.lastLeftPulses # odo.lastLeftPulses

\* C31: an update whose left and right pulse deltas are equal and opposite
\* leaves x and y unchanged and changes the heading by
\* (rightDist - leftDist) / wheelBase, normalized; every such update does.
C31_SpinKeepsPosition ==
    [][SpinUpdate =>
          (/\ odo'.x = odo.x /\ odo'.y = odo.y
           /\ odo'.theta = normalizeAngle(odo.theta +
                  Round(100 * (pulsesToCentimeters(odo'.lastRightPulses - odo.lastRightPulses)
                               - pulsesToCentimeters(odo'.lastLeftPulses - odo.lastLeftPulses)),
                        WheelBaseMm)))]_vars

\* a spin was integrated at a place other than the origin
C31_Witness == odo.at = "idle" /\ odo.spun /\ odo.x # 0 /\ odo.theta # 0

\* C36 as stated: whenever the odometry is outside its operations, the pulse
\* deltas integrated since the last init or reset add up to the last counter
\* value read.
C36_SumIsLastRead ==
    odo.at = "idle" => (odo.sumL = odo.lastLeftPulses /\ odo.sumR = odo.lastRightPulses)

\* C36, amended: whenever the odometry is outside its operations, the pulse
\* deltas integrated since the last init or reset add up to the last counter
\* value read less the value that init read (0 for a reset), an edge between
\* resetBoth() and the zeroing of the snapshots included.
C36_SumIsLastReadSinceBase ==
    odo.at = "idle" => /\ odo.sumL = odo.lastLeftPulses - odo.baseL
                       /\ odo.sumR = odo.lastRightPulses - odo.baseR

\* an edge that arrived inside resetPosition() has been integrated
C36_Witness ==
    /\ odo.at = "idle" /\ odo.raced
    /\ odo.sumL # 0

====
